---- MODULE Spec2Model ----
(***************************************************************************)
(* A model of gdx_config_validator: the diagnostic model (results.py), the *)
(* rule engine (core.py), the operation registry (schemas/operations.py)   *)
(* and the validation entry points (validators.py, factory.py).            *)
(*                                                                         *)
(* Python values are modelled as follows.  An Optional value is a sequence *)
(* of length 0 (None) or 1.  A dict whose key order no claim reads is a    *)
(* function; a list is a sequence.  A diagnostic dict is the record        *)
(* [type, severity, detail, exception]: severity is NoSeverity when the    *)
(* dict has no "severity" key, detail stands for the keys that name the    *)
(* subject (rule, parameter, section, mapping), exception is the text of   *)
(* the "exception" key, NoException when the dict has none.                *)
(***************************************************************************)
EXTENDS Integers, Sequences, FiniteSets, TLC

\* ------------------------------------------------------------------------
\* Bounds of the model
\* ------------------------------------------------------------------------
\* longest diagnostic list a builder action may grow a list to
MaxLen == 2
\* number of ValidationResult objects kept alive at once
MaxResults == 3
\* number of register_operation calls made after construction
MaxRegs == 2
\* number of rule names registered with a rule engine
MaxRules == 2
\* longest mappings list of a document
MaxMappings == 2
\* a validator counts mappings while its counter of mappings is below this
MaxCounted == 2
\* number of results a job validator stores before its history is cleared
MaxStored == 52
\* number of those results that validate_job_configuration and
\* validate_mapping_configuration store
MaxOther == 1
\* number of ValidationContext objects alive at once
MaxContexts == 3
\* the longest list of diagnostics handed to _deduplicate_errors
MaxDiagnostics == 3
\* number of LoggingContext objects made
MaxLoggingContexts == 2
\* number of with blocks of LoggingContext objects inside one another
MaxWithDepth == 2

\* ------------------------------------------------------------------------
\* Optional values
\* ------------------------------------------------------------------------
NoneVal == << >>
Some(x) == << x >>
IsNone(o) == Len(o) = 0
Get(o) == o[1]

\* ------------------------------------------------------------------------
\* results.py: severities and diagnostics
\* ------------------------------------------------------------------------
CRITICAL == "critical"
ERROR == "error"
WARNING == "warning"
INFO == "info"
ValidationSeverity == {CRITICAL, ERROR, WARNING, INFO}
NoSeverity == "absent"

NoException == ""

Diag(type, severity, detail) ==
  [type |-> type, severity |-> severity, detail |-> detail, exception |-> NoException]

\* a diagnostic with an "exception" key
ExcDiag(type, severity, detail, exception) ==
  [type |-> type, severity |-> severity, detail |-> detail, exception |-> exception]

IsBlocking(d) == d.severity \in {ERROR, CRITICAL}

SeqToSet(s) == {s[i] : i \in 1..Len(s)}

RECURSIVE SelectSeq2(_, _)
\* the elements of s at the indices in keep, in order
SelectSeq2(s, keep) ==
  IF s = << >> THEN << >>
  ELSE LET rest == SelectSeq2(Tail(s), {i - 1 : i \in keep \ {1}})
       IN IF 1 \in keep THEN << Head(s) >> \o rest ELSE rest

\* ------------------------------------------------------------------------
\* schemas/operations.py: parameter and operation specifications
\* ------------------------------------------------------------------------
\* A Python value passed as a parameter: t is its type, n its number, s its text.
NoneV == [t |-> "none", n |-> 0, s |-> ""]
IntV(n) == [t |-> "int", n |-> n, s |-> ""]
StrV(s) == [t |-> "str", n |-> 0, s |-> s]
BoolV(b) == [t |-> "bool", n |-> IF b THEN 1 ELSE 0, s |-> ""]
ListV == [t |-> "list", n |-> 0, s |-> ""]
\* a float with an integral value, as 0.0 or 2.0
FloatV(n) == [t |-> "float", n |-> n, s |-> ""]

\* isinstance(value, int): bool is a subclass of int
IsInt(v) == v.t \in {"int", "bool"}
\* isinstance(value, (int, float))
IsNumber(v) == v.t \in {"int", "bool", "float"}
IsStr(v) == v.t = "str"

ParameterSpec(name, param_type, required) ==
  [name |-> name, param_type |-> param_type, required |-> required,
   min_value |-> NoneVal, max_value |-> NoneVal, choices |-> << >>,
   validator |-> "none", allow_column_references |-> FALSE]

ColumnRefParam(name, required) ==
  [ParameterSpec(name, "column_reference", required) EXCEPT !.allow_column_references = TRUE]

OperationSpec(name, category, parameters) ==
  [name |-> name, category |-> category, parameters |-> parameters]

\* a divisor check without the isinstance test
validate_divisor_untyped(value, path, param_name) ==
  IF value.n = 0
  THEN << Diag("division_by_zero", NoSeverity, param_name) >>
  ELSE << >>

\* validate_divisor: the custom validator of divide.factor
validate_divisor(value, path, param_name) ==
  IF IsNumber(value) /\ value.n = 0
  THEN << Diag("division_by_zero", NoSeverity, param_name) >>
  ELSE << >>

RunValidator(p, value, path) ==
  IF p.validator = "validate_divisor" THEN validate_divisor(value, path, p.name) ELSE << >>

TypeOk(p, value) ==
  CASE p.param_type = "integer" -> IsInt(value)
    [] p.param_type \in {"float", "number"} -> IsNumber(value)
    [] p.param_type = "string" -> IsStr(value)
    [] p.param_type = "string_or_number" -> IsStr(value) \/ IsNumber(value)
    [] p.param_type = "column_reference" -> IsStr(value) \/ IsNumber(value)
    [] p.param_type = "boolean" -> value.t = "bool"
    [] OTHER -> TRUE

NumericTypes == {"integer", "float", "number", "string_or_number", "column_reference"}

\* ParameterSpec.validate
ParameterValidate(p, value, path) ==
  IF p.required /\ value = NoneV
  THEN << Diag("missing_required_parameter", NoSeverity, p.name) >>
  ELSE IF value = NoneV THEN << >>
  ELSE IF ~TypeOk(p, value)
  THEN << Diag("invalid_parameter_type", NoSeverity, p.name) >>
  ELSE
    LET ranged == IsNumber(value) /\ p.param_type \in NumericTypes
        below == IF ranged /\ ~IsNone(p.min_value) /\ value.n < Get(p.min_value)
                 THEN << Diag("parameter_below_minimum", NoSeverity, p.name) >> ELSE << >>
        above == IF ranged /\ ~IsNone(p.max_value) /\ value.n > Get(p.max_value)
                 THEN << Diag("parameter_above_maximum", NoSeverity, p.name) >> ELSE << >>
        choice == IF p.choices # << >> /\ ~(IsStr(value) /\ p.allow_column_references)
                     /\ value \notin SeqToSet(p.choices)
                  THEN << Diag("invalid_parameter_choice", NoSeverity, p.name) >> ELSE << >>
    IN below \o above \o choice \o RunValidator(p, value, path)

\* parameters.get(name): a parameter map is a function from names to values
ParamGet(parameters, name) ==
  IF name \in DOMAIN parameters THEN parameters[name] ELSE NoneV

RECURSIVE ValidateEachUntilFailure(_, _, _)
\* a loop that stops at the first parameter with diagnostics
ValidateEachUntilFailure(pspecs, parameters, path) ==
  IF pspecs = << >> THEN << >>
  ELSE LET param_errors == ParameterValidate(Head(pspecs),
                                             ParamGet(parameters, Head(pspecs).name), path)
       IN IF param_errors # << >> THEN param_errors
          ELSE ValidateEachUntilFailure(Tail(pspecs), parameters, path)

RECURSIVE ValidateEach(_, _, _)
\* the loop "for param_spec in self.parameters" of validate_parameters
ValidateEach(pspecs, parameters, path) ==
  IF pspecs = << >> THEN << >>
  ELSE ParameterValidate(Head(pspecs), ParamGet(parameters, Head(pspecs).name), path)
         \o ValidateEach(Tail(pspecs), parameters, path)

RECURSIVE UnknownParams(_, _, _)
\* one unknown_parameter diagnostic per key of the map the spec does not declare
UnknownParams(spec, keys, path) ==
  IF keys = {} THEN << >>
  ELSE LET k == CHOOSE x \in keys : TRUE
           known == {spec.parameters[i].name : i \in 1..Len(spec.parameters)}
       IN (IF k \in known THEN << >> ELSE << Diag("unknown_parameter", NoSeverity, k) >>)
            \o UnknownParams(spec, keys \ {k}, path)

\* OperationSpec.validate_parameters
validate_parameters(spec, parameters, path) ==
  UnknownParams(spec, DOMAIN parameters, path) \o ValidateEach(spec.parameters, parameters, path)

Str(name, required) == ParameterSpec(name, "string", required)
Choices(name, cs) == [ParameterSpec(name, "choice", FALSE) EXCEPT !.choices = cs]
IntRange(name, lo, hi) ==
  [ParameterSpec(name, "integer", FALSE) EXCEPT !.min_value = lo, !.max_value = hi]

RoundingModes ==
  << StrV("HALF_UP"), StrV("HALF_DOWN"), StrV("HALF_EVEN"), StrV("UP"), StrV("DOWN"),
     StrV("CEILING"), StrV("FLOOR") >>

\* OperationRegistry._initialize_operations: the catalog, in registration order
InitialCatalog ==
  << OperationSpec("trim", "string", << >>),
     OperationSpec("lowercase", "string", << >>),
     OperationSpec("uppercase", "string", << >>),
     OperationSpec("replace", "string",
       << Str("search", TRUE), Str("replacement", TRUE),
          ParameterSpec("case_sensitive", "boolean", FALSE) >>),
     OperationSpec("round", "numeric",
       << IntRange("precision", Some(0), Some(15)), Choices("mode", RoundingModes) >>),
     OperationSpec("add", "numeric", << ColumnRefParam("value", TRUE) >>),
     OperationSpec("subtract", "numeric", << ColumnRefParam("value", TRUE) >>),
     OperationSpec("multiply", "numeric", << ColumnRefParam("factor", TRUE) >>),
     OperationSpec("divide", "numeric",
       << [ColumnRefParam("factor", TRUE) EXCEPT !.validator = "validate_divisor"] >>),
     OperationSpec("parse_currency", "numeric",
       << Str("currency_symbol", FALSE), Str("thousands_separator", FALSE),
          Str("decimal_separator", FALSE),
          ParameterSpec("default_value", "string_or_number", FALSE) >>),
     OperationSpec("parse_number", "numeric",
       << ParameterSpec("default_value", "string_or_number", FALSE),
          IntRange("base", Some(2), Some(36)),
          Choices("number_type",
            << StrV("auto"), StrV("integer"), StrV("float"), StrV("decimal") >>) >>),
     OperationSpec("ceil", "numeric", << IntRange("precision", Some(0), NoneVal) >>),
     OperationSpec("floor", "numeric", << IntRange("precision", Some(0), NoneVal) >>),
     OperationSpec("min_value", "numeric", << ColumnRefParam("min_value", TRUE) >>),
     OperationSpec("max_value", "numeric", << ColumnRefParam("max_value", TRUE) >>),
     OperationSpec("clamp", "numeric",
       << ColumnRefParam("min_value", FALSE), ColumnRefParam("max_value", FALSE) >>),
     OperationSpec("format_date", "datetime",
       << Str("format_pattern", TRUE), Str("input_format", FALSE) >>),
     OperationSpec("case_when", "conditional",
       << ParameterSpec("conditions", "list", TRUE),
          ParameterSpec("default_value", "string_or_number", FALSE) >>),
     OperationSpec("string_to_number", "conversion",
       << Choices("number_type", << StrV("integer"), StrV("decimal"), StrV("float") >>),
          ParameterSpec("default_value", "string_or_number", FALSE) >>),
     OperationSpec("sql_expression", "advanced",
       << ParameterSpec("expression", "sql_expression", TRUE),
          ParameterSpec("column_references", "list", FALSE) >>) >>

\* ------------------------------------------------------------------------
\* State
\* ------------------------------------------------------------------------
VARIABLES
  \* OperationRegistry.operations: name -> OperationSpec
  operations,
  \* OperationRegistry.categories: category -> list of names
  categories,
  \* the lru_cache of get_operation_cached: entries [key, value], least recent first
  opCache,
  \* the lru_cache of get_operations_by_category_cached
  catCache,
  \* the argument of the latest register_operation call, and whether the name existed
  lastReg,
  \* number of register_operation calls made after construction
  regCount,
  \* name and return value of the latest validate_operation call
  lastValidation,
  \* heap[i] is the content of list object i
  heap,
  \* the ValidationResultBuilder: the identities of its three lists
  builder,
  \* the ValidationResult objects made so far: is_valid and the identities of their lists
  results,
  \* the latest call on the builder or on a result
  lastOp,
  \* ValidationRuleEngine.rules and rule_metadata, in registration order
  rules,
  \* arguments and return value of the latest apply_rules call
  lastApply,
  \* what the caller of the validation entry points holds
  held,
  \* the latest call of a validation entry point and what it did
  lastCall,
  \* self.metrics of the validator the entry points are called on
  metrics,
  \* GDXJobValidator.validation_history
  validation_history,
  \* every entry _store_validation_result has appended since the history was
  \* empty last, oldest first (a record of the calls, no field of the program)
  stored,
  \* GDXJobValidator.validation_mode
  validation_mode,
  \* the class of the object GDXJobValidator.comprehensive_validator holds
  comprehensive_validator,
  \* the ValidationContext objects made so far; contexts[1] is the one the
  \* caller made
  contexts,
  \* LoggerFactory._default_config
  default_config,
  \* the LoggingContext objects made so far: config and original_config
  logging_contexts,
  \* the with blocks the caller is inside, outermost first: the context object
  \* of each and the configuration on entry (a record of the calls, no field
  \* of the program)
  with_blocks,
  \* the latest call of the logging configuration interface
  lastLogging

registryVars == << operations, categories, opCache, catCache, lastReg, regCount, lastValidation >>
resultVars == << heap, builder, results, lastOp >>
engineVars == << rules, lastApply >>
validateVars == << held, lastCall, metrics >>
modeVars == << validation_mode, comprehensive_validator >>
jobVars == << validation_history, stored, modeVars >>
contextVars == << contexts >>
loggingVars == << default_config, logging_contexts, with_blocks, lastLogging >>
vars == << registryVars, resultVars, engineVars, validateVars, jobVars, contextVars,
           loggingVars >>

\* what the actions of one component leave alone
notRegistry == << resultVars, engineVars, validateVars, jobVars, contextVars, loggingVars >>
notResults == << registryVars, engineVars, validateVars, jobVars, contextVars, loggingVars >>
notEngine == << registryVars, resultVars, validateVars, jobVars, contextVars, loggingVars >>
notValidate == << registryVars, resultVars, engineVars, jobVars, contextVars, loggingVars >>
notJob == << registryVars, resultVars, engineVars, contextVars, loggingVars >>
notContext == << registryVars, resultVars, engineVars, jobVars, loggingVars >>
notLogging == << registryVars, resultVars, engineVars, validateVars, jobVars, contextVars >>

\* ------------------------------------------------------------------------
\* schemas/operations.py: OperationRegistry
\* ------------------------------------------------------------------------
\* functools.lru_cache(maxsize=128) on get_operation_cached
OpCacheMaxSize == 128
\* functools.lru_cache(maxsize=64) on get_operations_by_category_cached
CatCacheMaxSize == 64

CacheKeys(cache) == {cache[i].key : i \in 1..Len(cache)}
CacheHas(cache, k) == k \in CacheKeys(cache)
CacheIndex(cache, k) == (CHOOSE i \in 1..Len(cache) : cache[i].key = k)
CacheEntry(cache, k) == cache[CacheIndex(cache, k)].value

\* the cache after a call with key k whose computed value would be v: a hit moves
\* the entry to the most recent place, a miss stores v and evicts the least recent
\* entry of a full cache
CacheAfterCall(cache, k, v, maxsize) ==
  IF CacheHas(cache, k)
  THEN LET i == CacheIndex(cache, k)
       IN SelectSeq2(cache, (1..Len(cache)) \ {i}) \o << cache[i] >>
  ELSE LET kept == IF Len(cache) >= maxsize THEN Tail(cache) ELSE cache
       IN kept \o << [key |-> k, value |-> v] >>

\* what a call with key k returns: the cached value on a hit, v on a miss
CacheResult(cache, k, v) == IF CacheHas(cache, k) THEN CacheEntry(cache, k) ELSE v

\* self.operations.get(name)
OperationsGet(ops, name) == IF name \in DOMAIN ops THEN Some(ops[name]) ELSE NoneVal

\* get_operation -> get_operation_cached: the value returned in this state
get_operation(ops, cache, name) == CacheResult(cache, name, OperationsGet(ops, name))

\* tuple(self.categories.get(category, []))
CategoriesGet(cats, category) == IF category \in DOMAIN cats THEN cats[category] ELSE << >>

\* get_operations_by_category: the value returned in this state
get_operations_by_category(cats, cache, category) ==
  CacheResult(cache, category, CategoriesGet(cats, category))

\* get_all_operation_names, as a set (the order of the keys is not modelled)
get_all_operation_names(ops) == DOMAIN ops

\* clamp checks that refuse equal bounds too
ClampChecksStrict(parameters) ==
  LET min_val == ParamGet(parameters, "min_value")
      max_val == ParamGet(parameters, "max_value")
  IN IF min_val = NoneV /\ max_val = NoneV
     THEN << Diag("missing_clamp_bounds", NoSeverity, "clamp") >>
     ELSE IF IsNumber(min_val) /\ IsNumber(max_val) /\ min_val.n >= max_val.n
     THEN << Diag("invalid_clamp_range", NoSeverity, "clamp") >>
     ELSE << >>

\* the clamp checks of validate_operation
ClampChecks(parameters) ==
  LET min_val == ParamGet(parameters, "min_value")
      max_val == ParamGet(parameters, "max_value")
  IN IF min_val = NoneV /\ max_val = NoneV
     THEN << Diag("missing_clamp_bounds", NoSeverity, "clamp") >>
     ELSE IF IsNumber(min_val) /\ IsNumber(max_val) /\ min_val.n > max_val.n
     THEN << Diag("invalid_clamp_range", NoSeverity, "clamp") >>
     ELSE << >>

\* validate_operation: the list returned in this state
validate_operation(ops, cache, operation_name, parameters, path) ==
  LET operation_spec == get_operation(ops, cache, operation_name)
  IN IF IsNone(operation_spec)
     THEN << Diag("invalid_operation_type", NoSeverity, operation_name) >>
     ELSE validate_parameters(Get(operation_spec), parameters, path)
            \o (IF operation_name = "clamp" THEN ClampChecks(parameters) ELSE << >>)

\* register_operation: the registry's two dicts after the call
RegisteredOperations(ops, spec) ==
  [n \in DOMAIN ops \cup {spec.name} |-> IF n = spec.name THEN spec ELSE ops[n]]

RegisteredCategories(cats, spec) ==
  [c \in DOMAIN cats \cup {spec.category} |->
     IF c = spec.category THEN CategoriesGet(cats, c) \o << spec.name >> ELSE cats[c]]

RECURSIVE RegisterAll(_, _)
\* the registry after registering the specs of a list in order, from empty dicts
RegisterAll(specs, reg) ==
  IF specs = << >> THEN reg
  ELSE RegisterAll(Tail(specs),
         [operations |-> RegisteredOperations(reg.operations, Head(specs)),
          categories |-> RegisteredCategories(reg.categories, Head(specs))])

EmptyDict == [x \in {} |-> x]

\* OPERATION_REGISTRY = OperationRegistry()
InitialRegistry == RegisterAll(InitialCatalog, [operations |-> EmptyDict, categories |-> EmptyDict])

\* the specifications registered at run time: the one of test_register_new_operation,
\* and a re-registration of a catalog name with another parameter list
RegSpecs ==
  { OperationSpec("test_operation", "test", << Str("test_param", TRUE) >>),
    OperationSpec("trim", "string", << Str("chars", TRUE) >>) }

\* the names looked up
LookupNames == {"trim", "clamp", "test_operation"}
LookupCategories == {"string", "test"}
\* the parameter maps passed to validate_operation
ParamMaps == { EmptyDict, [min_value |-> IntV(10), max_value |-> IntV(5)] }

RegistryInit ==
  /\ operations = InitialRegistry.operations
  /\ categories = InitialRegistry.categories
  /\ opCache = << >>
  /\ catCache = << >>
  /\ lastReg = NoneVal
  /\ regCount = 0
  /\ lastValidation = NoneVal

RegisterOperation(spec) ==
  /\ regCount < MaxRegs
  /\ operations' = RegisteredOperations(operations, spec)
  /\ categories' = RegisteredCategories(categories, spec)
  /\ lastReg' = Some([spec |-> spec, replaced |-> spec.name \in DOMAIN operations])
  /\ regCount' = regCount + 1
  /\ UNCHANGED << opCache, catCache, lastValidation, notRegistry >>

GetOperation(name) ==
  /\ opCache' = CacheAfterCall(opCache, name, OperationsGet(operations, name), OpCacheMaxSize)
  /\ opCache' # opCache
  /\ UNCHANGED << operations, categories, catCache, lastReg, regCount, lastValidation, notRegistry >>

ValidateOperation(name, parameters) ==
  /\ lastValidation' = Some([name |-> name, parameters |-> parameters,
                             registered |-> name \in get_all_operation_names(operations),
                             errors |-> validate_operation(operations, opCache, name, parameters, "p")])
  /\ opCache' = CacheAfterCall(opCache, name, OperationsGet(operations, name), OpCacheMaxSize)
  /\ UNCHANGED << operations, categories, catCache, lastReg, regCount, notRegistry >>

GetOperationsByCategory(category) ==
  /\ catCache' = CacheAfterCall(catCache, category, CategoriesGet(categories, category),
                                CatCacheMaxSize)
  /\ catCache' # catCache
  /\ UNCHANGED << operations, categories, opCache, lastReg, regCount, lastValidation, notRegistry >>

RegistryNext ==
  \/ \E spec \in RegSpecs : RegisterOperation(spec)
  \/ \E name \in LookupNames : GetOperation(name)
  \/ \E name \in LookupNames, parameters \in ParamMaps : ValidateOperation(name, parameters)
  \/ \E category \in LookupCategories : GetOperationsByCategory(category)

\* the values given to the parameters of divide and clamp: None, numbers around
\* zero and around each other, a float zero, a column reference, the text "0"
ParameterValues ==
  { NoneV, IntV(0), IntV(5), IntV(10), IntV(0 - 1), FloatV(0), FloatV(5),
    StrV("other_column"), StrV("0"), BoolV(FALSE) }

\* validate_operation("divide", {"factor": v}, path) and ("divide", {}, path)
DivideCalls ==
  { [name |-> "divide", parameters |-> [factor |-> v]] : v \in ParameterValues }
    \cup { [name |-> "divide", parameters |-> EmptyDict] }

\* validate_operation("clamp", params, path), each bound absent or given
ClampCalls ==
  { [name |-> "clamp", parameters |-> [min_value |-> lo, max_value |-> hi]] :
      lo \in ParameterValues, hi \in ParameterValues }
    \cup { [name |-> "clamp", parameters |-> [min_value |-> lo]] : lo \in ParameterValues }
    \cup { [name |-> "clamp", parameters |-> [max_value |-> hi]] : hi \in ParameterValues }
    \cup { [name |-> "clamp", parameters |-> EmptyDict] }

\* validate_operation("replace", params, path): parameters that are missing,
\* of the wrong type, and not declared by the spec
ReplaceCalls ==
  { [name |-> "replace", parameters |-> p] :
      p \in { EmptyDict,
              [search |-> StrV("a"), replacement |-> StrV("b")],
              [search |-> IntV(5), case_sensitive |-> StrV("0")],
              [replacement |-> IntV(5), regex |-> BoolV(FALSE)],
              [pattern |-> StrV("a"), regex |-> BoolV(FALSE)] } }

\* the registry under run-time registrations and validations of divide and clamp
OperationsNext ==
  \/ \E spec \in RegSpecs : RegisterOperation(spec)
  \/ \E call \in DivideCalls \cup ClampCalls : ValidateOperation(call.name, call.parameters)

\* the registry under run-time registrations and validations of divide and replace
ParametersNext ==
  \/ \E spec \in RegSpecs : RegisterOperation(spec)
  \/ \E call \in DivideCalls \cup ReplaceCalls : ValidateOperation(call.name, call.parameters)

\* ------------------------------------------------------------------------
\* results.py: ValidationResult and ValidationResultBuilder
\* ------------------------------------------------------------------------
ValidationResult(is_valid, errors, warnings, info) ==
  [is_valid |-> is_valid, errors |-> errors, warnings |-> warnings, info |-> info]

get_all_messages(r) == r.errors \o r.warnings \o r.info

severity_order(s) ==
  CASE s = INFO -> 0 [] s = WARNING -> 1 [] s = ERROR -> 2 [] s = CRITICAL -> 3

\* msg.get("severity", "info")
MsgSeverity(msg) == IF msg.severity = NoSeverity THEN INFO ELSE msg.severity

filter_by_severity(r, min_severity) ==
  LET kept == SelectSeq(get_all_messages(r),
                LAMBDA m : severity_order(MsgSeverity(m)) >= severity_order(min_severity))
      filtered_errors == SelectSeq(kept, LAMBDA m : MsgSeverity(m) \in {ERROR, CRITICAL})
      filtered_warnings == SelectSeq(kept, LAMBDA m : MsgSeverity(m) = WARNING)
      filtered_info == SelectSeq(kept, LAMBDA m : MsgSeverity(m) \notin {ERROR, CRITICAL, WARNING})
  IN ValidationResult(Len(filtered_errors) = 0, filtered_errors, filtered_warnings, filtered_info)

\* a merge that takes the validity of the second operand only
merge_validity_of_other(a, b) ==
  ValidationResult(b.is_valid, a.errors \o b.errors, a.warnings \o b.warnings, a.info \o b.info)

merge(a, b) ==
  ValidationResult(a.is_valid /\ b.is_valid, a.errors \o b.errors,
                   a.warnings \o b.warnings, a.info \o b.info)

\* bool(result)
ResultBool(r) == r.is_valid

\* ValidationResultBuilder().add_error(...).build() on lists held by value
create_error_result(error_type, severity, detail, exception) ==
  ValidationResult(FALSE, << ExcDiag(error_type, severity, detail, exception) >>, << >>, << >>)

\* detail is the context the result is created with
create_exception_result(exception, context) ==
  create_error_result("validation_exception", CRITICAL, context, exception)

\* The lists of a builder and of the results it builds are objects: builder and
\* results hold list identities.
\* the result record whose fields are the contents of the lists r refers to
Deref(h, r) == ValidationResult(r.is_valid, h[r.errors], h[r.warnings], h[r.info])

\* the identities of three lists allocated at the end of the heap
Fresh(h) == [errors |-> Len(h) + 1, warnings |-> Len(h) + 2, info |-> Len(h) + 3]

Op(op, a, b, r) == [op |-> op, a |-> a, b |-> b, r |-> r]

\* the type names passed to the add_* methods
ErrorType == "e"
WarningType == "w"
InfoType == "i"

\* ValidationResultBuilder()
ResultsInit ==
  /\ heap = << << >>, << >>, << >> >>
  /\ builder = [errors |-> 1, warnings |-> 2, info |-> 3]
  /\ results = << >>
  /\ lastOp = Op("init", 0, 0, 0)

AddError(severity) ==
  /\ Len(heap[builder.errors]) < MaxLen
  /\ heap' = [heap EXCEPT ![builder.errors] = Append(@, Diag(ErrorType, severity, "path"))]
  /\ lastOp' = Op("add_error", 0, 0, 0)
  /\ UNCHANGED << builder, results, notResults >>

AddWarning ==
  /\ Len(heap[builder.warnings]) < MaxLen
  /\ heap' = [heap EXCEPT ![builder.warnings] = Append(@, Diag(WarningType, WARNING, "path"))]
  /\ lastOp' = Op("add_warning", 0, 0, 0)
  /\ UNCHANGED << builder, results, notResults >>

AddInfo ==
  /\ Len(heap[builder.info]) < MaxLen
  /\ heap' = [heap EXCEPT ![builder.info] = Append(@, Diag(InfoType, INFO, "path"))]
  /\ lastOp' = Op("add_info", 0, 0, 0)
  /\ UNCHANGED << builder, results, notResults >>

\* build() hands the builder's own lists to the result
Build ==
  /\ Len(results) < MaxResults
  /\ results' = Append(results,
                  ValidationResult(Len(heap[builder.errors]) = 0,
                                   builder.errors, builder.warnings, builder.info))
  /\ lastOp' = Op("build", 0, 0, Len(results) + 1)
  /\ UNCHANGED << heap, builder, notResults >>

\* the result v, whose lists are new objects, is stored
Store(v, op, a, b) ==
  /\ heap' = heap \o << v.errors, v.warnings, v.info >>
  /\ results' = Append(results, [is_valid |-> v.is_valid] @@ Fresh(heap))
  /\ lastOp' = Op(op, a, b, Len(results) + 1)
  /\ UNCHANGED << builder, notResults >>

Merge(a, b) ==
  /\ Len(results) < MaxResults
  /\ Store(merge(Deref(heap, results[a]), Deref(heap, results[b])), "merge", a, b)

FilterBySeverity(a, min_severity) ==
  /\ Len(results) < MaxResults
  /\ Store(filter_by_severity(Deref(heap, results[a]), min_severity), "filter_by_severity", a, 0)

ResultsNext ==
  \/ \E severity \in ValidationSeverity : AddError(severity)
  \/ AddWarning
  \/ AddInfo
  \/ Build
  \/ \E a, b \in 1..Len(results) : Merge(a, b)
  \/ \E a \in 1..Len(results), min_severity \in ValidationSeverity :
       FilterBySeverity(a, min_severity)

\* ------------------------------------------------------------------------
\* core.py: ValidationRuleEngine
\* ------------------------------------------------------------------------
\* What a rule function does when it is called: return None, raise, return a dict,
\* a list or a ValidationResult.  An element of a returned list that is not a dict
\* is NotADict.
NotADict == [type |-> "not_a_dict", severity |-> NoSeverity, detail |-> "", exception |-> NoException]

ReturnsNone == [kind |-> "none", exception |-> NoException, items |-> << >>]
Raises(text) == [kind |-> "raise", exception |-> text, items |-> << >>]
ReturnsDict(d) == [kind |-> "dict", exception |-> NoException, items |-> << d >>]
ReturnsList(l) == [kind |-> "list", exception |-> NoException, items |-> l]
\* a ValidationResult whose diagnostics are all in its errors list
ReturnsResult(errors) == [kind |-> "result", exception |-> NoException, items |-> errors]

\* str(e) of the AttributeError of item.get on a str
NoGetText == "'str' object has no attribute 'get'"

\* a builder whose lists are held by value
EmptyBuilder == [errors |-> << >>, warnings |-> << >>, info |-> << >>]

\* the bucket of apply_rules for an item of a rule whose default severity is default
Bucket(b, item, default) ==
  LET severity == IF item.severity = NoSeverity THEN default ELSE item.severity
  IN IF severity = ERROR THEN [b EXCEPT !.errors = Append(@, item)]
     ELSE IF severity = WARNING THEN [b EXCEPT !.warnings = Append(@, item)]
     ELSE [b EXCEPT !.info = Append(@, item)]

\* an except branch that swallows the exception
RuleFailedSilently(b, rule_name, text) == b

\* the except branch of apply_rules
RuleFailed(b, rule_name, text) ==
  [b EXCEPT !.errors = Append(@, ExcDiag("rule_execution_error", ERROR, rule_name, text))]

RECURSIVE BucketAll(_, _, _, _)
\* the loop over a returned list: item.get raises on an element that is not a dict,
\* after the elements before it have been appended
BucketAll(b, items, default, rule_name) ==
  IF items = << >> THEN b
  ELSE IF Head(items) = NotADict THEN RuleFailed(b, rule_name, NoGetText)
  ELSE BucketAll(Bucket(b, Head(items), default), Tail(items), default, rule_name)

\* the body of the loop of apply_rules for one selected rule
RuleStep(b, rule) ==
  LET f == rule.func
  IN CASE f.kind = "raise" -> RuleFailed(b, rule.name, f.exception)
       [] f.kind = "result" -> [b EXCEPT !.errors = @ \o f.items]
       [] f.kind = "list" -> BucketAll(b, f.items, rule.severity, rule.name)
       [] f.kind = "dict" -> Bucket(b, f.items[1], rule.severity)
       [] OTHER -> b

\* "if rule_categories:" is false for None and for the empty list
Selected(rule, rule_categories) ==
  \/ IsNone(rule_categories)
  \/ Get(rule_categories) = << >>
  \/ SeqToSet(Get(rule_categories)) \cap SeqToSet(rule.categories) # {}

RECURSIVE ApplyRulesFrom(_, _, _)
ApplyRulesFrom(rs, rule_categories, b) ==
  IF rs = << >> THEN b
  ELSE ApplyRulesFrom(Tail(rs), rule_categories,
         IF Selected(Head(rs), rule_categories) THEN RuleStep(b, Head(rs)) ELSE b)

apply_rules(rs, rule_categories) ==
  LET b == ApplyRulesFrom(rs, rule_categories, EmptyBuilder)
  IN ValidationResult(Len(b.errors) = 0, b.errors, b.warnings, b.info)

\* self.rules[name] = rule_func: a new name goes to the end, a known name keeps its place
register_rule(rs, name, func, severity, cats) ==
  LET rule == [name |-> name, func |-> func, severity |-> severity, categories |-> cats]
  IN IF \E i \in 1..Len(rs) : rs[i].name = name
     THEN [i \in 1..Len(rs) |-> IF rs[i].name = name THEN rule ELSE rs[i]]
     ELSE Append(rs, rule)

\* the names rules are registered under, in the order they are first used
RuleNameOf == << "r1", "r2", "r3", "r4" >>
RuleNames == {RuleNameOf[i] : i \in 1..MaxRules}
RuleSeverities == {ERROR, WARNING}
RuleCategories == { << "structure" >>, << "quality" >> }
RuleFunctions ==
  { ReturnsNone,
    Raises("boom"),
    ReturnsDict(Diag("d", NoSeverity, "rule")),
    ReturnsList(<< Diag("sql_security_risk", CRITICAL, "rule"), Diag("l", WARNING, "rule") >>),
    ReturnsList(<< Diag("l", ERROR, "rule"), NotADict >>),
    ReturnsResult(<< Diag("x", ERROR, "rule") >>) }
\* the rule_categories arguments of apply_rules
CategoryFilters == { NoneVal, Some(<< >>), Some(<< "structure" >>), Some(<< "quality", "other" >>) }

\* ValidationRuleEngine()
EngineInit ==
  /\ rules = << >>
  /\ lastApply = NoneVal

RegisterRule(name, func, severity, cats) ==
  /\ rules' = register_rule(rules, name, func, severity, cats)
  /\ rules' # rules
  /\ lastApply' = NoneVal
  /\ UNCHANGED notEngine

ApplyRules(rule_categories) ==
  /\ lastApply' = Some([rule_categories |-> rule_categories,
                        result |-> apply_rules(rules, rule_categories)])
  /\ UNCHANGED << rules, notEngine >>

EngineNext ==
  \/ \E name \in RuleNames, func \in RuleFunctions, severity \in RuleSeverities,
        cats \in RuleCategories : RegisterRule(name, func, severity, cats)
  \/ \E rule_categories \in CategoryFilters : ApplyRules(rule_categories)

\* ------------------------------------------------------------------------
\* Documents: the values a parsed YAML document is made of
\* ------------------------------------------------------------------------
\* t is the Python type of the value.  The text of a str is a sequence of
\* characters; the keys of a dict are strings.
PyNone == [t |-> "NoneType"]
PyInt == [t |-> "int"]
\* an int whose value matters
PyNumber(n) == [t |-> "int", n |-> n]
PyStr(chars) == [t |-> "str", s |-> chars]
PyList(items) == [t |-> "list", items |-> items]
PyDict(d) == [t |-> "dict", d |-> d]

\* str(e) of the AttributeError of value.get on a value that is no dict
NoGetTextOf(t) ==
  CASE t = "str" -> NoGetText
    [] t = "NoneType" -> "'NoneType' object has no attribute 'get'"
    [] t = "int" -> "'int' object has no attribute 'get'"
    [] t = "list" -> "'list' object has no attribute 'get'"

\* str(e) of the TypeError of "key in value" on a value that is no container
NotContainerText(t) ==
  CASE t = "NoneType" -> "argument of type 'NoneType' is not iterable"
    [] t = "int" -> "argument of type 'int' is not iterable"

\* str(e) of the TypeError of iterating a value that is not iterable
NotIterableText(t) ==
  CASE t = "NoneType" -> "'NoneType' object is not iterable"
    [] t = "int" -> "'int' object is not iterable"

\* "key in value" is defined for a dict, a list and a str
IsContainer(v) == v.t \in {"dict", "list", "str"}

\* "key in value" for a container.  A str of at most one character contains a
\* key exactly when it is that key, and equals a key exactly when it is that key;
\* longer strs are in no section of the model that a key is looked up in.
KeyIn(key, v) ==
  CASE v.t = "dict" -> key \in DOMAIN v.d
    [] v.t = "list" -> \E i \in 1..Len(v.items) :
                          v.items[i].t = "str" /\ Len(v.items[i].s) <= 1
                          /\ v.items[i].s = << key >>
    [] v.t = "str" /\ Len(v.s) <= 1 -> v.s = << key >>

IsIterable(v) == v.t \in {"dict", "list", "str"}

\* the elements a for loop over v sees: the items of a list, the keys of a
\* dict, the characters of a str (keys and characters are strs)
Iter(v) ==
  CASE v.t = "list" -> v.items
    [] v.t = "dict" -> [i \in 1..Cardinality(DOMAIN v.d) |-> [t |-> "str"]]
    [] v.t = "str" -> [i \in 1..Len(v.s) |-> PyStr(<< v.s[i] >>)]

\* the characters of [a-zA-Z0-9_-]
NameChars ==
  { "a", "b", "c", "d", "e", "f", "g", "h", "i", "j", "k", "l", "m",
    "n", "o", "p", "q", "r", "s", "t", "u", "v", "w", "x", "y", "z",
    "A", "B", "C", "D", "E", "F", "G", "H", "I", "J", "K", "L", "M",
    "N", "O", "P", "Q", "R", "S", "T", "U", "V", "W", "X", "Y", "Z",
    "0", "1", "2", "3", "4", "5", "6", "7", "8", "9", "_", "-" }

\* re.match(r"^[a-zA-Z0-9_-]+$", s): "$" also matches before a final newline
MatchesNamePattern(s) ==
  LET body == IF Len(s) > 0 /\ s[Len(s)] = "\n" THEN SubSeq(s, 1, Len(s) - 1) ELSE s
  IN Len(body) > 0 /\ \A i \in 1..Len(body) : body[i] \in NameChars

\* ------------------------------------------------------------------------
\* Text: str values as sequences of characters, and the str and re operations
\* the column rules use
\* ------------------------------------------------------------------------
UpperLetters ==
  << "A", "B", "C", "D", "E", "F", "G", "H", "I", "J", "K", "L", "M",
     "N", "O", "P", "Q", "R", "S", "T", "U", "V", "W", "X", "Y", "Z" >>
LowerLetters ==
  << "a", "b", "c", "d", "e", "f", "g", "h", "i", "j", "k", "l", "m",
     "n", "o", "p", "q", "r", "s", "t", "u", "v", "w", "x", "y", "z" >>

\* \w of re, for the ASCII characters the texts of the model are made of
WordChars == NameChars \ {"-"}
\* [a-zA-Z_]
IdentStart == WordChars \ {"0", "1", "2", "3", "4", "5", "6", "7", "8", "9"}
\* the characters str.split() and \s take as whitespace
Whitespace == {" ", "\n", "\t"}

Min(S) == CHOOSE x \in S : \A y \in S : x <= y
Max(S) == CHOOSE x \in S : \A y \in S : x >= y

\* str.lower() and str.upper()
LowerOf == [c \in {UpperLetters[k] : k \in 1..26} |->
              LowerLetters[CHOOSE k \in 1..26 : UpperLetters[k] = c]]
UpperOf == [c \in {LowerLetters[k] : k \in 1..26} |->
              UpperLetters[CHOOSE k \in 1..26 : LowerLetters[k] = c]]
lower(s) == [i \in 1..Len(s) |-> IF s[i] \in DOMAIN LowerOf THEN LowerOf[s[i]] ELSE s[i]]
upper(s) == [i \in 1..Len(s) |-> IF s[i] \in DOMAIN UpperOf THEN UpperOf[s[i]] ELSE s[i]]

\* the text w stands in s from place i on
OccursAt(s, w, i) ==
  i >= 1 /\ i + Len(w) - 1 <= Len(s) /\ SubSeq(s, i, i + Len(w) - 1) = w
Occurrences(s, w) == {i \in 1..Len(s) : OccursAt(s, w, i)}
\* "w in s" for a text w that is not empty
In(w, s) == Occurrences(s, w) # {}

RECURSIVE Normalize(_)
\* " ".join(s.split())
Normalize(s) ==
  IF s = << >> THEN << >>
  ELSE IF Head(s) \in Whitespace THEN Normalize(Tail(s))
  ELSE LET stops == {i \in 1..Len(s) : s[i] \in Whitespace}
           n == IF stops = {} THEN Len(s) + 1 ELSE Min(stops)
           rest == Normalize(SubSeq(s, n, Len(s)))
       IN IF rest = << >> THEN SubSeq(s, 1, n - 1)
          ELSE SubSeq(s, 1, n - 1) \o << " " >> \o rest

RECURSIVE Split(_, _)
\* s.split(sep)
Split(s, sep) ==
  IF Occurrences(s, sep) = {} THEN << s >>
  ELSE LET i == Min(Occurrences(s, sep))
       IN << SubSeq(s, 1, i - 1) >> \o Split(SubSeq(s, i + Len(sep), Len(s)), sep)

\* s.strip(chars); s.strip() is StripChars(s, Whitespace)
StripChars(s, chars) ==
  LET keep == {i \in 1..Len(s) : s[i] \notin chars}
  IN IF keep = {} THEN << >> ELSE SubSeq(s, Min(keep), Max(keep))

\* the longest run of \w characters of s that starts at place i
WordRun(s, i) ==
  LET stops == {j \in i..Len(s) : s[j] \notin WordChars}
  IN SubSeq(s, i, IF stops = {} THEN Len(s) ELSE Min(stops) - 1)

\* an identifier [a-zA-Z_][a-zA-Z0-9_]* starts at place i of s
IdentAt(s, i) == i >= 1 /\ i <= Len(s) /\ s[i] \in IdentStart

\* \b of re holds before place i of s, where a \w character stands
WordStartsAt(s, i) == i = 1 \/ s[i - 1] \notin WordChars

\* re.match(r"^[a-zA-Z_][a-zA-Z0-9_]*$", s): "$" also matches before a final newline
MatchesIdentifier(s) ==
  LET body == IF Len(s) > 0 /\ s[Len(s)] = "\n" THEN SubSeq(s, 1, Len(s) - 1) ELSE s
  IN IdentAt(body, 1) /\ \A i \in 1..Len(body) : body[i] \in WordChars

\* re.search(r'"\s+([a-zA-Z_][a-zA-Z0-9_]*)$', s): the group of the match, or None
QuotedThenAlias(s) ==
  LET body == IF Len(s) > 0 /\ s[Len(s)] = "\n" THEN SubSeq(s, 1, Len(s) - 1) ELSE s
      starts == {i \in 2..Len(body) :
                   /\ body[i - 1] \in Whitespace
                   /\ MatchesIdentifier(SubSeq(body, i, Len(body)))
                   /\ \E q \in 1..(i - 2) :
                        body[q] = "\"" /\ \A k \in (q + 1)..(i - 1) : body[k] \in Whitespace}
  IN IF starts = {} THEN NoneVal ELSE Some(SubSeq(body, Min(starts), Len(body)))

\* ------------------------------------------------------------------------
\* validators.py: the alias of a source_columns_interested entry
\* ------------------------------------------------------------------------
\* parts[1].strip() of the parts a split gave; None when there are not two
\* parts and two_parts_only holds
SecondPart(parts, two_parts_only) ==
  IF two_parts_only /\ Len(parts) # 2 THEN NoneVal
  ELSE Some(StripChars(parts[2], Whitespace))

\* column_parts[-1].strip("\"'")
LastPartClean(column_parts) == StripChars(column_parts[Len(column_parts)], {"\"", "'"})

\* the alias of an entry without " as ": quoted is what the search for a
\* quoted column followed by an alias gave
QuotedOrSimple(normalized_col, quoted) ==
  IF ~IsNone(quoted) THEN quoted
  ELSE Some(LastPartClean(Split(StripChars(normalized_col, Whitespace), << "." >>)))

\* normalized.count('"') >= 2 and re.search(r'"\s+([a-zA-Z_][a-zA-Z0-9_]*)$', normalized)
QuotedAlias(normalized) ==
  IF Cardinality(Occurrences(normalized, << "\"" >>)) >= 2
  THEN QuotedThenAlias(normalized) ELSE NoneVal

\* the alias read from an entry after " ".join(col.split()), low being
\* normalized_col.lower()
NormalizedAlias(normalized_col, low) ==
  IF In(<< " ", "a", "s", " " >>, low)
  THEN IF In(<< "c", "a", "s", "e" >>, low) /\ In(<< "e", "n", "d", " ", "a", "s" >>, low)
       THEN SecondPart(Split(low, << "e", "n", "d", " ", "a", "s", " " >>), TRUE)
       ELSE SecondPart(Split(low, << " ", "a", "s", " " >>), FALSE)
  ELSE QuotedOrSimple(normalized_col, QuotedAlias(normalized_col))

\* the alias the column consistency rule reads from an entry: None when the
\* rule adds nothing to source_columns_set
consistency_alias(col) == NormalizedAlias(Normalize(col), lower(Normalize(col)))

\* sql_patterns["case_statement"].search(s): the group of the match, or None
CaseAlias(s) ==
  LET low == lower(s)
      ends(i) == {j \in (i + 5)..Len(s) : OccursAt(low, << " ", "e", "n", "d", " ", "a", "s", " " >>, j) /\ IdentAt(s, j + 8)}
      starts == {i \in 1..Len(s) :
                   OccursAt(low, << "c", "a", "s", "e", " " >>, i) /\ WordStartsAt(s, i) /\ ends(i) # {}}
  IN IF starts = {} THEN NoneVal ELSE Some(WordRun(s, Min(ends(Min(starts))) + 8))

\* sql_patterns["function_call"].search(s): the group of the match, or None
FunctionAlias(s) ==
  LET low == lower(s)
      \* the place of the ")" that closes the "(" at place p
      close(p) == Min({c \in p..Len(s) : s[c] = ")"})
      \* the last place of the name before the "(" at place p
      last(p) == IF p > 1 /\ s[p - 1] = " " THEN p - 2 ELSE p - 1
      first(p) == Min({b \in 1..last(p) : \A k \in b..last(p) : s[k] \in WordChars})
      calls == {p \in 1..Len(s) :
                  /\ s[p] = "("
                  /\ last(p) >= 1 /\ s[last(p)] \in WordChars /\ s[first(p)] \in IdentStart
                  /\ \E c \in p..Len(s) : s[c] = ")"
                  /\ OccursAt(low, << " ", "a", "s", " " >>, close(p) + 1) /\ IdentAt(s, close(p) + 5)}
  IN IF calls = {} THEN NoneVal ELSE Some(WordRun(s, close(Min(calls)) + 5))

\* the search of [^)]+ OP [^(]+\s+as\s+(identifier) in s, OP one of the texts
\* of ops: the group of the match, or None
OperatorAlias(s, ops) ==
  LET low == lower(s)
      width == Len(CHOOSE op \in ops : TRUE)
      isOp(k) == \E op \in ops : OccursAt(s, op, k)
      \* the first place the text before the operator at place k may start at
      start(k) == Max({0} \cup {c \in 1..(k - 1) : s[c] = ")"}) + 1
      tails(k) == {b \in (k + width)..Len(s) :
                     /\ \A c \in (k + width)..b : s[c] # "("
                     /\ OccursAt(low, << " ", "a", "s", " " >>, b + 1) /\ IdentAt(s, b + 5)}
      found == {k \in 2..Len(s) : isOp(k) /\ start(k) <= k - 1 /\ tails(k) # {}}
  IN IF found = {} THEN NoneVal
     ELSE LET from == Min({start(k) : k \in found})
              k == Max({x \in found : start(x) = from})
          IN Some(WordRun(s, Max(tails(k)) + 5))

\* sql_patterns["alias_pattern"].search(s) for a text without whitespace at its end
GeneralAlias(s) ==
  LET low == lower(s)
      found == {p \in 1..Len(s) : OccursAt(low, << " ", "a", "s", " " >>, p)
                                   /\ MatchesIdentifier(SubSeq(s, p + 4, Len(s)))}
  IN IF found = {} THEN NoneVal ELSE Some(SubSeq(s, Min(found) + 4, Len(s)))

\* SQLExpressionColumnValidator._extract_alias_from_expression
extract_alias_from_expression(expression) ==
  LET normalized_expr == Normalize(expression)
      tries == << CaseAlias(normalized_expr), FunctionAlias(normalized_expr),
                  OperatorAlias(normalized_expr, {<< "+" >>, << "-" >>, << "*" >>, << "/" >>}),
                  OperatorAlias(normalized_expr, {<< "|", "|" >>}),
                  GeneralAlias(normalized_expr),
                  QuotedAlias(normalized_expr) >>
      hits == {i \in 1..Len(tries) : ~IsNone(tries[i])}
  IN IF hits = {} THEN NoneVal ELSE tries[Min(hits)]

\* ------------------------------------------------------------------------
\* validators.py: ComprehensiveYamlValidator._validate_sql_security
\* ------------------------------------------------------------------------
RECURSIVE Flatten(_)
\* the concatenation of the sequences of a sequence
Flatten(ss) == IF ss = << >> THEN << >> ELSE Head(ss) \o Flatten(Tail(ss))

\* the first place from i on where no whitespace stands (Len(s) + 1 if none)
SkipSpace(s, i) == Min({j \in i..Len(s) : s[j] \notin Whitespace} \cup {Len(s) + 1})

\* re.search(r"\b(w1|w2|..)\s*\(", s, re.IGNORECASE)
SearchCall(s, words) ==
  LET low == lower(s)
  IN \E w \in words, i \in 1..Len(s) :
       /\ OccursAt(low, w, i) /\ WordStartsAt(s, i)
       /\ SkipSpace(s, i + Len(w)) <= Len(s) /\ s[SkipSpace(s, i + Len(w))] = "("

\* re.search(r"\b(w1|w2|..)\s+NEXT", s, re.IGNORECASE), NEXT being \w+ when
\* seconds is empty and (n1|n2|..)\b otherwise
SearchWords(s, words, seconds) ==
  LET low == lower(s)
  IN \E w \in words, i \in 1..Len(s) :
       /\ OccursAt(low, w, i) /\ WordStartsAt(s, i)
       /\ i + Len(w) <= Len(s) /\ s[i + Len(w)] \in Whitespace
       /\ LET j == SkipSpace(s, i + Len(w))
          IN IF seconds = {} THEN j <= Len(s) /\ s[j] \in WordChars
             ELSE \E n \in seconds :
                    /\ OccursAt(low, n, j)
                    /\ (j + Len(n) > Len(s) \/ s[j + Len(n)] \notin WordChars)

\* re.search(r"OPEN.*?(c1|c2|..)", s, re.IGNORECASE): "." takes no newline
SearchOnLine(s, open, closes) ==
  LET low == lower(s)
  IN \E i \in 1..Len(s) :
       /\ OccursAt(s, open, i)
       /\ \E c \in closes, j \in (i + Len(open))..Len(s) :
            /\ OccursAt(low, c, j)
            /\ \A k \in (i + Len(open))..(j - 1) : s[k] # "\n"

\* re.search(r"\b(w1|w2|..)\w+", s, re.IGNORECASE)
SearchPrefix(s, words) ==
  LET low == lower(s)
  IN \E w \in words, i \in 1..Len(s) :
       /\ OccursAt(low, w, i) /\ WordStartsAt(s, i)
       /\ i + Len(w) <= Len(s) /\ s[i + Len(w)] \in WordChars

Pattern(name, kind, words, seconds) ==
  [name |-> name, kind |-> kind, words |-> words, seconds |-> seconds]

\* the dangerous_patterns of _validate_source_columns_rule, each named by the
\* comment the source gives it: the kind is the shape of the regular
\* expression, words its first alternatives and seconds its second ones
dangerous_patterns ==
  << Pattern("Exec functions", "call", {<< "e", "x", "e", "c" >>, << "e", "x", "e", "c", "u", "t", "e" >>}, {}),
     Pattern("System stored procedures", "prefix", {<< "s", "p", "_" >>, << "x", "p", "_" >>}, {}),
     Pattern("SQL comments", "text", {<< "-", "-" >>}, {}),
     Pattern("Block comments", "line", {<< "/", "*" >>}, {<< "*", "/" >>}),
     Pattern("Union injections", "words", {<< "u", "n", "i", "o", "n" >>, << "i", "n", "t", "e", "r", "s", "e", "c", "t" >>, << "e", "x", "c", "e", "p", "t" >>}, {<< "s", "e", "l", "e", "c", "t" >>}),
     Pattern("DDL commands", "words", {<< "d", "r", "o", "p" >>, << "c", "r", "e", "a", "t", "e" >>, << "a", "l", "t", "e", "r" >>, << "t", "r", "u", "n", "c", "a", "t", "e" >>}, {}),
     Pattern("File operations", "words", {<< "i", "n", "t", "o" >>}, {<< "o", "u", "t", "f", "i", "l", "e" >>}),
     Pattern("Load file function", "call", {<< "l", "o", "a", "d", "_", "f", "i", "l", "e" >>}, {}),
     Pattern("Command chaining", "line", {<< ";" >>},
             {<< "d", "r", "o", "p" >>, << "d", "e", "l", "e", "t", "e" >>, << "i", "n", "s", "e", "r", "t" >>, << "u", "p", "d", "a", "t", "e" >>, << "c", "r", "e", "a", "t", "e" >>}),
     Pattern("Time delays", "words", {<< "w", "a", "i", "t", "f", "o", "r" >>}, {<< "d", "e", "l", "a", "y" >>}),
     Pattern("Benchmark function", "call", {<< "b", "e", "n", "c", "h", "m", "a", "r", "k" >>}, {}),
     Pattern("Sleep function", "call", {<< "s", "l", "e", "e", "p" >>}, {}) >>

\* re.search(pattern, expression, re.IGNORECASE | re.MULTILINE)
PatternFound(s, pattern) ==
  CASE pattern.kind = "call" -> SearchCall(s, pattern.words)
    [] pattern.kind = "prefix" -> SearchPrefix(s, pattern.words)
    [] pattern.kind = "text" -> \E w \in pattern.words : In(w, s)
    [] pattern.kind = "line" ->
         SearchOnLine(s, CHOOSE w \in pattern.words : TRUE, pattern.seconds)
    [] pattern.kind = "words" -> SearchWords(s, pattern.words, pattern.seconds)

\* the dangerous patterns that s matches, in order
DangerousPatterns(s) == SelectSeq(dangerous_patterns, LAMBDA p : PatternFound(s, p))

\* suspicious_functions, each with its text
suspicious_functions ==
  << [name |-> "xp_cmdshell", text |-> << "x", "p", "_", "c", "m", "d", "s", "h", "e", "l", "l" >>],
     [name |-> "sp_configure", text |-> << "s", "p", "_", "c", "o", "n", "f", "i", "g", "u", "r", "e" >>],
     [name |-> "openrowset", text |-> << "o", "p", "e", "n", "r", "o", "w", "s", "e", "t" >>],
     [name |-> "opendatasource", text |-> << "o", "p", "e", "n", "d", "a", "t", "a", "s", "o", "u", "r", "c", "e" >>],
     [name |-> "exec", text |-> << "e", "x", "e", "c" >>],
     [name |-> "execute", text |-> << "e", "x", "e", "c", "u", "t", "e" >>],
     [name |-> "eval", text |-> << "e", "v", "a", "l" >>],
     [name |-> "script", text |-> << "s", "c", "r", "i", "p", "t" >>],
     [name |-> "shell", text |-> << "s", "h", "e", "l", "l" >>] >>

\* the test of the suspicious-function loop: func.lower() in expression.lower()
SuspiciousIn(func, expression) == In(func.text, lower(expression))

\* the diagnostics of the patterns and functions found
SecurityDiags(type, found) ==
  [i \in 1..Len(found) |-> Diag(type, CRITICAL, found[i].name)]

\* _validate_sql_security, for an expression of at most 1000 characters
validate_sql_security(expression) ==
  SecurityDiags("sql_security_risk", DangerousPatterns(expression))
    \o SecurityDiags("suspicious_sql_function",
                     SelectSeq(suspicious_functions, LAMBDA f : SuspiciousIn(f, expression)))

\* ------------------------------------------------------------------------
\* validators.py: the rule functions, for the sections of Documents
\* ------------------------------------------------------------------------
NoItems == ReturnsList(<< >>)

\* a rule that starts with: if "<key>" not in <data>: return []
\* (the sections these rules go on to validate are in no document of the model)
OptionalSectionRule(data, key) ==
  CASE ~IsContainer(data) -> Raises(NotContainerText(data.t))
    [] IsContainer(data) /\ ~KeyIn(key, data) -> NoItems

validate_mapping_structure_rule(mapping, path) ==
  CASE mapping.t # "dict" -> Raises(NoGetTextOf(mapping.t))
    [] mapping.t = "dict" /\ "mapping_name" \notin DOMAIN mapping.d -> NoItems
    [] mapping.t = "dict" /\ "mapping_name" \in DOMAIN mapping.d
         /\ mapping.d.mapping_name.t = "str" ->
         IF MatchesNamePattern(mapping.d.mapping_name.s) THEN NoItems
         ELSE ReturnsList(<< Diag("invalid_mapping_name", ERROR, path) >>)

\* self.transformation_types
transformation_types ==
  { << "d", "i", "r", "e", "c", "t", "_", "m", "a", "p", "p", "i", "n", "g" >>, << "s", "t", "r", "i", "n", "g", "_", "m", "a", "n", "i", "p", "u", "l", "a", "t", "i", "o", "n" >>, << "d", "a", "t", "e", "_", "f", "o", "r", "m", "a", "t", "t", "i", "n", "g" >>, << "v", "a", "l", "u", "e", "_", "m", "a", "p", "p", "i", "n", "g" >>,
    << "d", "a", "t", "a", "_", "t", "y", "p", "e", "_", "c", "o", "n", "v", "e", "r", "s", "i", "o", "n" >>, << "c", "o", "n", "d", "i", "t", "i", "o", "n", "a", "l" >>, << "e", "x", "p", "r", "e", "s", "s", "i", "o", "n" >>, << "c", "o", "m", "p", "l", "e", "x" >>, << "t", "y", "p", "e", "_", "c", "o", "n", "v", "e", "r", "s", "i", "o", "n" >>,
    << "n", "u", "m", "e", "r", "i", "c", "_", "t", "r", "a", "n", "s", "f", "o", "r", "m", "a", "t", "i", "o", "n" >>, << "f", "i", "n", "a", "n", "c", "i", "a", "l", "_", "c", "a", "l", "c", "u", "l", "a", "t", "i", "o", "n" >>, << "m", "a", "t", "h", "e", "m", "a", "t", "i", "c", "a", "l", "_", "o", "p", "e", "r", "a", "t", "i", "o", "n" >> }

\* the names of self.data_type_pattern
DataTypeNames ==
  { << "v", "a", "r", "c", "h", "a", "r" >>, << "c", "h", "a", "r" >>, << "t", "e", "x", "t" >>, << "s", "t", "r", "i", "n", "g" >>, << "i", "n", "t", "e", "g", "e", "r" >>, << "i", "n", "t" >>, << "b", "i", "g", "i", "n", "t" >>, << "d", "e", "c", "i", "m", "a", "l" >>,
    << "n", "u", "m", "e", "r", "i", "c" >>, << "f", "l", "o", "a", "t" >>, << "d", "o", "u", "b", "l", "e" >>, << "b", "o", "o", "l", "e", "a", "n" >>, << "b", "o", "o", "l" >>, << "d", "a", "t", "e" >>, << "t", "i", "m", "e", "s", "t", "a", "m", "p" >>, << "d", "a", "t", "e", "t", "i", "m", "e" >>,
    << "t", "i", "m", "e" >>, << "b", "i", "n", "a", "r", "y" >>, << "v", "a", "r", "b", "i", "n", "a", "r", "y" >>, << "a", "r", "r", "a", "y" >>, << "m", "a", "p" >>, << "s", "t", "r", "u", "c", "t" >> }

\* re.match(self.data_type_pattern, s, re.IGNORECASE): a name, then \s*, then
\* an optional (...) without ")" inside, then \s* up to the end
MatchesDataTypePattern(s) ==
  \E name \in DataTypeNames :
    /\ OccursAt(lower(s), name, 1)
    /\ LET open == SkipSpace(s, Len(name) + 1)
       IN \/ open > Len(s)
          \/ /\ s[open] = "("
             /\ \E close \in (open + 1)..Len(s) :
                  /\ s[close] = ")"
                  /\ \A k \in (open + 1)..(close - 1) : s[k] # ")"
                  /\ \A k \in (close + 1)..Len(s) : s[k] \in Whitespace

required_fields == << "source_alias", "target_column", "data_type", "transformation_type" >>

\* _validate_single_transformation, for a transformation that is no dict or a
\* dict whose transformation_type and data_type are strs and which has no
\* "transformations" array to go through: it has none, or it is a direct_mapping
validate_single_transformation(transformation, path) ==
  CASE transformation.t # "dict" -> << Diag("invalid_transformation_type", ERROR, path) >>
    [] transformation.t = "dict"
         /\ \A key \in {"transformation_type", "data_type"} \cap DOMAIN transformation.d :
              transformation.d[key].t = "str"
         /\ ("transformations" \in DOMAIN transformation.d
               => /\ "transformation_type" \in DOMAIN transformation.d
                  /\ transformation.d.transformation_type.s = << "d", "i", "r", "e", "c", "t", "_", "m", "a", "p", "p", "i", "n", "g" >>) ->
         LET d == transformation.d
             missing == SelectSeq(required_fields, LAMBDA field : field \notin DOMAIN d)
             typed == "transformation_type" \in DOMAIN d
             trans_type == d.transformation_type.s
         IN [i \in 1..Len(missing) |-> Diag("missing_required_field", ERROR, missing[i])]
              \o (IF typed /\ trans_type \notin transformation_types
                  THEN << Diag("invalid_transformation_type", ERROR, path) >> ELSE << >>)
              \o (IF "data_type" \in DOMAIN d /\ ~MatchesDataTypePattern(d.data_type.s)
                  THEN << Diag("invalid_data_type_pattern", WARNING, path) >> ELSE << >>)
              \o (IF typed /\ trans_type # << >> /\ trans_type # << "d", "i", "r", "e", "c", "t", "_", "m", "a", "p", "p", "i", "n", "g" >>
                  THEN << Diag("missing_transformations_array", ERROR, path) >> ELSE << >>)

validate_transformation_structure_rule(mapping, path) ==
  IF mapping.t = "dict" /\ "column_transformations" \in DOMAIN mapping.d
  THEN LET transformations == mapping.d.column_transformations
       IN IF transformations.t # "list"
          THEN ReturnsList(<< Diag("invalid_transformations_type", ERROR, path) >>)
          ELSE ReturnsList(Flatten([i \in 1..Len(transformations.items) |->
                                      validate_single_transformation(transformations.items[i],
                                                                     path)]))
  ELSE OptionalSectionRule(mapping, "column_transformations")

validate_operation_parameters_rule(mapping, path) == NoItems

\* a column_transformations section the loops of the rules below go through
\* without raising: a list of dicts whose target_column and source_alias are strs
ListedTransformations(section) ==
  /\ section.t = "list"
  /\ \A i \in 1..Len(section.items) :
       /\ section.items[i].t = "dict"
       /\ \A key \in {"target_column", "source_alias"} \cap DOMAIN section.items[i].d :
            section.items[i].d[key].t = "str"

\* a section of ListedTransformations without "transformations" arrays
PlainTransformations(section) ==
  /\ ListedTransformations(section)
  /\ \A i \in 1..Len(section.items) : "transformations" \notin DOMAIN section.items[i].d

check_duplicate_target_columns_rule(mapping, path) ==
  CASE mapping.t # "dict" -> Raises(NoGetTextOf(mapping.t))
    [] mapping.t = "dict" /\ "column_transformations" \notin DOMAIN mapping.d -> NoItems
    [] mapping.t = "dict" /\ "column_transformations" \in DOMAIN mapping.d
         /\ ListedTransformations(mapping.d.column_transformations) ->
         LET transformations == mapping.d.column_transformations.items
             Target(i) == IF "target_column" \in DOMAIN transformations[i].d
                          THEN transformations[i].d.target_column.s ELSE << >>
             repeated == {i \in 1..Len(transformations) :
                            Target(i) # << >> /\ \E j \in 1..(i - 1) : Target(j) = Target(i)}
         IN ReturnsList([k \in 1..Cardinality(repeated) |->
                           Diag("duplicate_target_column", ERROR, path)])

\* the loops of the two global rules over yaml_content.get("mappings", []): the
\* first element that is no dict raises at mapping.get; a dict without
\* column_transformations adds nothing, and neither does a transformation
\* without a "transformations" array
GlobalMappingLoop(yaml_content) ==
  CASE yaml_content.t # "dict" -> Raises(NoGetTextOf(yaml_content.t))
    [] yaml_content.t = "dict" /\ "mappings" \notin DOMAIN yaml_content.d -> NoItems
    [] yaml_content.t = "dict" /\ "mappings" \in DOMAIN yaml_content.d ->
         LET mappings == yaml_content.d.mappings
         IN IF ~IsIterable(mappings) THEN Raises(NotIterableText(mappings.t))
            ELSE LET elems == Iter(mappings)
                     bad == {i \in 1..Len(elems) : elems[i].t # "dict"}
                 IN CASE bad # {} ->
                           Raises(NoGetTextOf(elems[CHOOSE i \in bad : \A j \in bad : i <= j].t))
                      [] bad = {} /\ \A i \in 1..Len(elems) :
                                       "column_transformations" \in DOMAIN elems[i].d =>
                                         PlainTransformations(elems[i].d.column_transformations) ->
                           NoItems

\* str(e) of the TypeError of len(value)
NoLenTextOf(t) ==
  CASE t = "NoneType" -> "object of type 'NoneType' has no len()"
    [] t = "int" -> "object of type 'int' has no len()"

\* the document is a dict whose mappings are a list of dicts with
\* ListedTransformations, some of them with a "transformations" array
HasChains(yaml_content) ==
  /\ yaml_content.t = "dict" /\ "mappings" \in DOMAIN yaml_content.d
  /\ yaml_content.d.mappings.t = "list"
  /\ \A i \in 1..Len(yaml_content.d.mappings.items) :
       LET mapping == yaml_content.d.mappings.items[i]
       IN /\ mapping.t = "dict"
          /\ "column_transformations" \in DOMAIN mapping.d
               => ListedTransformations(mapping.d.column_transformations)
  /\ \E i \in 1..Len(yaml_content.d.mappings.items) :
       LET mapping == yaml_content.d.mappings.items[i]
       IN /\ "column_transformations" \in DOMAIN mapping.d
          /\ ~PlainTransformations(mapping.d.column_transformations)

\* the transformations of all the mappings of a document with HasChains, in the
\* order the loops of the global rules visit them
AllTransformations(yaml_content) ==
  Flatten([i \in 1..Len(yaml_content.d.mappings.items) |->
             LET mapping == yaml_content.d.mappings.items[i]
             IN IF "column_transformations" \in DOMAIN mapping.d
                THEN mapping.d.column_transformations.items ELSE << >>])

RECURSIVE ChainLoop(_, _)
\* a global rule over the transformations: what it does for each of them is
\* in steps; the first one that raises ends the rule, else the lists add up
ChainLoop(steps, warnings) ==
  IF steps = << >> THEN ReturnsList(warnings)
  ELSE IF Head(steps).kind = "raise" THEN Head(steps)
  ELSE ChainLoop(Tail(steps), warnings \o Head(steps).items)

\* transformation.get("transformations", []): the chain of operations
OperationsOf(transformation) ==
  IF "transformations" \in DOMAIN transformation.d THEN transformation.d.transformations
  ELSE PyList(<< >>)

\* the body of the loop of _check_complex_transformation_chains_rule
ComplexChain(chain, path) ==
  CASE chain.t \in {"NoneType", "int"} -> Raises(NoLenTextOf(chain.t))
    [] chain.t = "list" ->
         IF Len(chain.items) > 5
         THEN ReturnsList(<< Diag("complex_transformation_chain", WARNING, path) >>)
         ELSE NoItems

check_complex_transformation_chains_rule(yaml_content, path) ==
  IF HasChains(yaml_content)
  THEN LET transformations == AllTransformations(yaml_content)
       IN ChainLoop([j \in 1..Len(transformations) |->
                       ComplexChain(OperationsOf(transformations[j]), path)], << >>)
  ELSE GlobalMappingLoop(yaml_content)

\* step.get("type") of a step that is a dict: a str or None
StepType(step) == IF "type" \in DOMAIN step.d THEN step.d.type ELSE PyNone

CountOf(chain, types) ==
  Cardinality({k \in 1..Len(chain) :
                 StepType(chain[k]).t = "str" /\ StepType(chain[k]).s \in types})

\* op.get("parameters", {}).get("factor", 1) of a step whose parameters, when it
\* has them, are a dict: the factor, or 1
FactorOf(step) ==
  IF "parameters" \in DOMAIN step.d /\ "factor" \in DOMAIN step.d.parameters.d
  THEN step.d.parameters.d.factor ELSE PyNumber(1)

\* the step at place k is a divide and the next one a multiply
DivideThenMultiply(chain, k) ==
  /\ StepType(chain[k]) = PyStr(<< "d", "i", "v", "i", "d", "e" >>)
  /\ StepType(chain[k + 1]) = PyStr(<< "m", "u", "l", "t", "i", "p", "l", "y" >>)

\* the places where the canceling check reads the factors of a step whose
\* parameters are no dict
BadParameters(chain) ==
  {k \in 1..(Len(chain) - 1) :
     /\ DivideThenMultiply(chain, k)
     /\ \/ ("parameters" \in DOMAIN chain[k].d /\ chain[k].d.parameters.t # "dict")
        \/ ("parameters" \in DOMAIN chain[k + 1].d
              /\ chain[k + 1].d.parameters.t # "dict")}

\* the parameters the canceling check calls .get on first
FirstBadParameters(chain, k) ==
  IF "parameters" \in DOMAIN chain[k].d /\ chain[k].d.parameters.t # "dict"
  THEN chain[k].d.parameters ELSE chain[k + 1].d.parameters

\* abs(current_factor * next_factor - 1.0) < 0.0001, for factors that are ints
Canceling(chain, k) ==
  /\ DivideThenMultiply(chain, k)
  /\ FactorOf(chain[k]).t = "int" /\ FactorOf(chain[k + 1]).t = "int"
  /\ FactorOf(chain[k]).n * FactorOf(chain[k + 1]).n = 1

\* the body of the loop of _validate_numeric_operations_rule, for a chain that
\* has no len() or is a list of steps that are dicts
NumericChain(chain, path) ==
  CASE chain.t \in {"NoneType", "int"} -> Raises(NoLenTextOf(chain.t))
    [] chain.t = "list" /\ Len(chain.items) <= 1 -> NoItems
    [] chain.t = "list" /\ Len(chain.items) > 1
         /\ \A k \in 1..Len(chain.items) : chain.items[k].t = "dict" ->
         IF BadParameters(chain.items) # {}
         THEN Raises(NoGetTextOf(FirstBadParameters(chain.items,
                       CHOOSE k \in BadParameters(chain.items) :
                         \A j \in BadParameters(chain.items) : k <= j).t))
         ELSE ReturnsList(
                (IF CountOf(chain.items, {<< "r", "o", "u", "n", "d" >>, << "c", "e", "i", "l" >>, << "f", "l", "o", "o", "r" >>, << "t", "r", "u", "n", "c", "a", "t", "e", "_", "n", "u", "m", "b", "e", "r" >>}) > 1
                 THEN << Diag("redundant_rounding", WARNING, path) >> ELSE << >>)
                \o (IF CountOf(chain.items, {<< "m", "u", "l", "t", "i", "p", "l", "y" >>, << "d", "i", "v", "i", "d", "e" >>, << "a", "d", "d" >>, << "s", "u", "b", "t", "r", "a", "c", "t" >>}) > 3
                    THEN << Diag("complex_arithmetic_chain", INFO, path) >> ELSE << >>)
                \o [n \in 1..Cardinality({k \in 1..(Len(chain.items) - 1) :
                                            Canceling(chain.items, k)}) |->
                      Diag("canceling_operations", WARNING, path)])

validate_numeric_operations_rule(yaml_content, path) ==
  IF HasChains(yaml_content)
  THEN LET transformations == AllTransformations(yaml_content)
       IN ChainLoop([j \in 1..Len(transformations) |->
                       NumericChain(OperationsOf(transformations[j]), path)], << >>)
  ELSE GlobalMappingLoop(yaml_content)

validate_default_partition_settings_rule(settings, path) ==
  OptionalSectionRule(settings, "default_partition_settings")

\* re.search(r"[^a-zA-Z0-9_]", s)
HasInvalidChars(s) == \E i \in 1..Len(s) : s[i] \notin WordChars

\* the loop of _validate_column_mapping_rule for a dict of one str key (the
\* keys of a columns_mapping dict are sequences of characters) with a str
\* value; one item has no duplicate target
ColumnMappingItem(source_col, target_col, path) ==
  (IF HasInvalidChars(source_col)
   THEN << Diag("invalid_source_column_name", WARNING, path) >> ELSE << >>)
  \o (IF HasInvalidChars(target_col.s)
      THEN << Diag("invalid_target_column_name", WARNING, path) >> ELSE << >>)

validate_column_mapping_rule(mapping, path) ==
  CASE ~IsContainer(mapping) -> Raises(NotContainerText(mapping.t))
    [] IsContainer(mapping) /\ ~KeyIn("columns_mapping", mapping) -> NoItems
    [] mapping.t = "dict" /\ "columns_mapping" \in DOMAIN mapping.d
         /\ mapping.d.columns_mapping.t # "dict" ->
         ReturnsList(<< Diag("invalid_column_mapping_type", ERROR, path) >>)
    [] mapping.t = "dict" /\ "columns_mapping" \in DOMAIN mapping.d
         /\ mapping.d.columns_mapping.t = "dict"
         /\ Cardinality(DOMAIN mapping.d.columns_mapping.d) <= 1
         /\ \A k \in DOMAIN mapping.d.columns_mapping.d :
              mapping.d.columns_mapping.d[k].t = "str" ->
         ReturnsList(Flatten([i \in 1..Cardinality(DOMAIN mapping.d.columns_mapping.d) |->
                       LET k == CHOOSE k \in DOMAIN mapping.d.columns_mapping.d : TRUE
                       IN ColumnMappingItem(k, mapping.d.columns_mapping.d[k], path)]))

\* the body of the loop of _validate_column_duplications_rule for one entry
DuplicationItems(duplication, path) ==
  IF duplication.t # "dict" THEN << Diag("invalid_duplication_entry", ERROR, path) >>
  ELSE (IF "source_column" \notin DOMAIN duplication.d
        THEN << Diag("missing_source_column", ERROR, path) >> ELSE << >>)
       \o (IF "additional_columns" \notin DOMAIN duplication.d
           THEN << Diag("missing_additional_columns", ERROR, path) >>
           ELSE IF duplication.d.additional_columns.t # "list"
           THEN << Diag("invalid_additional_columns_type", ERROR, path) >>
           ELSE IF Len(duplication.d.additional_columns.items) = 0
           THEN << Diag("empty_additional_columns", WARNING, path) >>
           ELSE << >>)

validate_column_duplications_rule(mapping, path) ==
  CASE ~IsContainer(mapping) -> Raises(NotContainerText(mapping.t))
    [] IsContainer(mapping) /\ ~KeyIn("column_duplications", mapping) -> NoItems
    [] mapping.t = "dict" /\ "column_duplications" \in DOMAIN mapping.d
         /\ mapping.d.column_duplications.t # "list" ->
         ReturnsList(<< Diag("invalid_column_duplications_type", ERROR, path) >>)
    [] mapping.t = "dict" /\ "column_duplications" \in DOMAIN mapping.d
         /\ mapping.d.column_duplications.t = "list" ->
         ReturnsList(Flatten([i \in 1..Len(mapping.d.column_duplications.items) |->
                       DuplicationItems(mapping.d.column_duplications.items[i], path)]))

\* the diagnostics of an alias: alias is parts[1].strip(), None when the
\* split did not give two parts
CheckedAlias(alias, allow_empty, path) ==
  IF IsNone(alias) \/ (~allow_empty /\ Get(alias) = << >>)
  THEN << Diag("invalid_alias_format", ERROR, path) >>
  ELSE IF MatchesIdentifier(Get(alias)) THEN << >>
  ELSE << Diag("invalid_alias_name", WARNING, path) >>

\* the alias part of _validate_source_columns_rule for one entry after
\* " ".join(column.split()), low being normalized_column.lower()
NormalizedAliasFormat(normalized_column, low, path) ==
  IF In(<< " ", "a", "s", " " >>, low)
  THEN IF In(<< "c", "a", "s", "e" >>, low) /\ In(<< "e", "n", "d", " ", "a", "s" >>, low)
       THEN CheckedAlias(SecondPart(Split(low, << "e", "n", "d", " ", "a", "s", " " >>), TRUE), FALSE, path)
       ELSE CheckedAlias(SecondPart(Split(low, << " ", "a", "s", " " >>), TRUE), TRUE, path)
  ELSE IF ~IsNone(QuotedAlias(normalized_column))
  THEN << Diag("non_standard_alias_format", WARNING, path) >>
  ELSE << >>

AliasFormat(column, path) ==
  NormalizedAliasFormat(Normalize(column), lower(Normalize(column)), path)

\* the body of the loop of _validate_source_columns_rule for one entry
validate_source_column(column, path) ==
  IF column.t # "str" THEN << Diag("invalid_column_type", ERROR, path) >>
  ELSE validate_sql_security(column.s) \o AliasFormat(column.s, path)

validate_source_columns_rule(mapping, path) ==
  IF mapping.t = "dict" /\ "source_columns_interested" \in DOMAIN mapping.d
  THEN LET source_columns == mapping.d.source_columns_interested
       IN IF source_columns.t # "list"
          THEN ReturnsList(<< Diag("invalid_source_columns_type", ERROR, path) >>)
          ELSE ReturnsList(Flatten([i \in 1..Len(source_columns.items) |->
                                      validate_source_column(source_columns.items[i], path)]))
  ELSE OptionalSectionRule(mapping, "source_columns_interested")

\* source_columns_set of _validate_column_consistency_rule, for a section that
\* is a list
source_columns_set(mapping) ==
  IF "source_columns_interested" \notin DOMAIN mapping.d THEN {}
  ELSE UNION {IF mapping.d.source_columns_interested.items[i].t = "str"
              THEN SeqToSet(consistency_alias(mapping.d.source_columns_interested.items[i].s))
              ELSE {} :
                i \in 1..Len(mapping.d.source_columns_interested.items)}

\* transformation_columns_set, for a section of ListedTransformations
transformation_columns_set(mapping) ==
  IF "column_transformations" \notin DOMAIN mapping.d THEN {}
  ELSE LET transformations == mapping.d.column_transformations.items
       IN {transformations[i].d.source_alias.s :
             i \in {i \in 1..Len(transformations) :
                      "source_alias" \in DOMAIN transformations[i].d}}

\* check 3 of _validate_column_consistency_rule
OrphanedTransformations(transformation_columns, source_columns, path) ==
  IF transformation_columns \ source_columns # {} /\ source_columns # {}
  THEN ReturnsList(<< Diag("orphaned_transformation_columns", ERROR, path) >>)
  ELSE NoItems

\* mapped_columns_set, for a columns_mapping section that is a dict of str keys
mapped_columns_set(mapping) ==
  IF "columns_mapping" \notin DOMAIN mapping.d THEN {}
  ELSE DOMAIN mapping.d.columns_mapping.d

\* duplicated_source_columns_set, for a column_duplications section that is a
\* list whose source_column values are strs
duplicated_source_columns_set(mapping) ==
  IF "column_duplications" \notin DOMAIN mapping.d THEN {}
  ELSE LET duplications == mapping.d.column_duplications.items
       IN {duplications[i].d.source_column.s :
             i \in {i \in 1..Len(duplications) :
                      /\ duplications[i].t = "dict"
                      /\ "source_column" \in DOMAIN duplications[i].d}}

\* checks 1 and 2 of _validate_column_consistency_rule: what is appended to
\* the list named warnings
OrphanedReferences(type, referenced_columns, source_columns, path) ==
  IF referenced_columns \ source_columns # {} /\ source_columns # {}
  THEN << Diag(type, ERROR, path) >>
  ELSE << >>

\* the sections of the mapping have the types the extraction loops of
\* _validate_column_consistency_rule run through without raising
ColumnSectionsTyped(mapping) ==
  /\ "source_columns_interested" \in DOMAIN mapping.d
       => mapping.d.source_columns_interested.t = "list"
  /\ "column_transformations" \in DOMAIN mapping.d
       => ListedTransformations(mapping.d.column_transformations)
  /\ "columns_mapping" \in DOMAIN mapping.d => mapping.d.columns_mapping.t = "dict"
  /\ "column_duplications" \in DOMAIN mapping.d
       => /\ mapping.d.column_duplications.t = "list"
          /\ \A i \in 1..Len(mapping.d.column_duplications.items) :
               LET dup == mapping.d.column_duplications.items[i]
               IN (dup.t = "dict" /\ "source_column" \in DOMAIN dup.d)
                    => dup.d.source_column.t = "str"

\* str(e) of the AttributeError of value.keys() on a value that is no dict
NoKeysTextOf(t) ==
  CASE t = "int" -> "'int' object has no attribute 'keys'"
    [] t = "list" -> "'list' object has no attribute 'keys'"
    [] t = "NoneType" -> "'NoneType' object has no attribute 'keys'"
    [] t = "str" -> "'str' object has no attribute 'keys'"

\* the source_columns_interested section, when there is one, is a list
SourceColumnsListed(mapping) ==
  "source_columns_interested" \in DOMAIN mapping.d
    => mapping.d.source_columns_interested.t = "list"

\* with none of the four column sections in the mapping every set is empty
validate_column_consistency_rule(mapping, path) ==
  CASE mapping.t # "dict" -> Raises(NoGetTextOf(mapping.t))
    [] mapping.t = "dict"
         /\ DOMAIN mapping.d \cap {"source_columns_interested", "columns_mapping",
                                   "column_duplications", "column_transformations"} = {}
         -> NoItems
    [] mapping.t = "dict"
         /\ DOMAIN mapping.d \cap {"columns_mapping", "column_duplications"} = {}
         /\ "source_columns_interested" \in DOMAIN mapping.d
         /\ ~IsIterable(mapping.d.source_columns_interested)
         -> Raises(NotIterableText(mapping.d.source_columns_interested.t))
    [] mapping.t = "dict"
         /\ DOMAIN mapping.d \cap {"columns_mapping", "column_duplications"} = {}
         /\ DOMAIN mapping.d \cap {"source_columns_interested", "column_transformations"} # {}
         /\ ("source_columns_interested" \in DOMAIN mapping.d
               => mapping.d.source_columns_interested.t = "list")
         /\ ("column_transformations" \in DOMAIN mapping.d
               => ListedTransformations(mapping.d.column_transformations))
         -> OrphanedTransformations(transformation_columns_set(mapping),
                                    source_columns_set(mapping), path)
    [] mapping.t = "dict" /\ SourceColumnsListed(mapping)
         /\ "columns_mapping" \in DOMAIN mapping.d
         /\ mapping.d.columns_mapping.t # "dict"
         -> Raises(NoKeysTextOf(mapping.d.columns_mapping.t))
    [] mapping.t = "dict" /\ SourceColumnsListed(mapping)
         /\ ("columns_mapping" \in DOMAIN mapping.d => mapping.d.columns_mapping.t = "dict")
         /\ "column_duplications" \in DOMAIN mapping.d
         /\ ~IsIterable(mapping.d.column_duplications)
         -> Raises(NotIterableText(mapping.d.column_duplications.t))
    [] mapping.t = "dict"
         /\ DOMAIN mapping.d \cap {"columns_mapping", "column_duplications"} # {}
         /\ ColumnSectionsTyped(mapping)
         -> ReturnsList(
              OrphanedReferences("orphaned_mapped_columns", mapped_columns_set(mapping),
                                 source_columns_set(mapping), path)
              \o OrphanedReferences("orphaned_duplicated_columns",
                                    duplicated_source_columns_set(mapping),
                                    source_columns_set(mapping), path)
              \o OrphanedTransformations(transformation_columns_set(mapping),
                                         source_columns_set(mapping), path).items)

valid_modes ==
  { << "f", "u", "l", "l" >>, << "d", "e", "l", "t", "a" >>,
    << "i", "n", "c", "r", "e", "m", "e", "n", "t", "a", "l" >> }

\* "environment" is in no settings dict of the model
validate_job_settings_rule(settings, path) ==
  CASE ~IsContainer(settings) -> Raises(NotContainerText(settings.t))
    [] IsContainer(settings) /\ ~KeyIn("load", settings) /\ ~KeyIn("environment", settings)
         -> NoItems
    [] settings.t = "dict" /\ "load" \in DOMAIN settings.d
         /\ ~KeyIn("environment", settings) ->
         IF settings.d.load.t = "str" /\ settings.d.load.s \in valid_modes THEN NoItems
         ELSE ReturnsList(<< Diag("invalid_load_mode", ERROR, path) >>)

\* ------------------------------------------------------------------------
\* validators.py: the rule engines of GDXYamlParser and ComprehensiveYamlValidator
\* ------------------------------------------------------------------------
Rule(name, severity, cats) == [name |-> name, severity |-> severity, categories |-> cats]

\* GDXYamlParser._register_validation_rules
BaseRules ==
  << Rule("validate_mapping_structure", ERROR, << "structure", "mapping" >>),
     Rule("validate_transformation_structure", ERROR, << "structure", "transformation" >>),
     Rule("validate_operation_parameters", ERROR, << "operation", "parameters" >>),
     Rule("check_duplicate_targets", ERROR, << "quality", "duplicates" >>),
     Rule("check_complex_chains", WARNING, << "performance", "complexity" >>),
     Rule("validate_numeric_operations", WARNING, << "numeric", "operations" >>) >>

\* ComprehensiveYamlValidator._register_extended_validation_rules
ExtendedRules ==
  << Rule("validate_default_partition_settings", ERROR, << "structure", "partition", "settings" >>),
     Rule("validate_column_mapping", ERROR, << "structure", "mapping", "columns" >>),
     Rule("validate_column_duplications", WARNING, << "structure", "duplications", "columns" >>),
     Rule("validate_source_columns", ERROR, << "structure", "columns", "source" >>),
     Rule("validate_column_consistency", WARNING, << "consistency", "columns" >>),
     Rule("validate_job_settings", ERROR, << "structure", "settings" >>) >>

\* the rules of a ComprehensiveYamlValidator: those of its base class, then its own
ComprehensiveRules == BaseRules \o ExtendedRules

\* the function registered under name, called on data
RuleFunction(name, data, path) ==
  CASE name = "validate_mapping_structure" -> validate_mapping_structure_rule(data, path)
    [] name = "validate_transformation_structure" ->
         validate_transformation_structure_rule(data, path)
    [] name = "validate_operation_parameters" -> validate_operation_parameters_rule(data, path)
    [] name = "check_duplicate_targets" -> check_duplicate_target_columns_rule(data, path)
    [] name = "check_complex_chains" -> check_complex_transformation_chains_rule(data, path)
    [] name = "validate_numeric_operations" -> validate_numeric_operations_rule(data, path)
    [] name = "validate_default_partition_settings" ->
         validate_default_partition_settings_rule(data, path)
    [] name = "validate_column_mapping" -> validate_column_mapping_rule(data, path)
    [] name = "validate_column_duplications" -> validate_column_duplications_rule(data, path)
    [] name = "validate_source_columns" -> validate_source_columns_rule(data, path)
    [] name = "validate_column_consistency" -> validate_column_consistency_rule(data, path)
    [] name = "validate_job_settings" -> validate_job_settings_rule(data, path)

\* self.rule_engine.apply_rules(data, context, rule_categories=cats)
EngineApply(table, data, path, cats) ==
  apply_rules([i \in 1..Len(table) |->
                 [name |-> table[i].name, func |-> RuleFunction(table[i].name, data, path),
                  severity |-> table[i].severity, categories |-> table[i].categories]],
              Some(cats))

\* ------------------------------------------------------------------------
\* validators.py, factory.py, parsers.py: the validation entry points
\* ------------------------------------------------------------------------
\* what a call does: return a value or raise
Returned(result) == [kind |-> "return", result |-> result]
Raised(text) == [kind |-> "raise", exception |-> text]

\* core.py validate_with_metrics: an exception of func becomes an exception result
validate_with_metrics(outcome, func_name) ==
  IF outcome.kind = "raise"
  THEN Returned(create_exception_result(outcome.exception, func_name))
  ELSE outcome

\* core.py log_validation_start_end: an exception of func is logged and raised again
log_validation_start_end(outcome) == outcome

\* builder.errors.extend(r.errors) and the same for warnings and info
Extend(b, r) ==
  [errors |-> b.errors \o r.errors, warnings |-> b.warnings \o r.warnings,
   info |-> b.info \o r.info]

\* builder.build()
BuildOf(b) == ValidationResult(Len(b.errors) = 0, b.errors, b.warnings, b.info)

\* context.get_path() of the context of the mapping at place i (i - 1 in the source)
MappingPaths == << "mappings[0]", "mappings[1]", "mappings[2]" >>

RECURSIVE ApplyToMappings(_, _, _, _, _)
\* the loop "for i, mapping in enumerate(mappings)" from place i on, over dicts
ApplyToMappings(table, elems, i, cats, b) ==
  IF i > Len(elems) THEN b
  ELSE ApplyToMappings(table, elems, i + 1, cats,
         Extend(b, EngineApply(table, elems[i], MappingPaths[i], cats)))

\* the loop over the mappings section: enumerate raises on a value that is not
\* iterable, mapping.get raises on the first element that is no dict
MappingLoop(table, mappings, cats, b) ==
  IF ~IsIterable(mappings) THEN Raised(NotIterableText(mappings.t))
  ELSE LET elems == Iter(mappings)
           bad == {i \in 1..Len(elems) : elems[i].t # "dict"}
       IN IF bad # {}
          THEN Raised(NoGetTextOf(elems[CHOOSE i \in bad : \A j \in bad : i <= j].t))
          ELSE Returned(ApplyToMappings(table, elems, 1, cats, b))

TransformationCategories == << "structure", "mapping", "transformation", "operation", "quality" >>

\* the end of validate_column_transformations, loop being what the loop over
\* the mappings did: unless it raised, the global rules are applied and the
\* summary is added
WithGlobalRules(loop, global_result) ==
  IF loop.kind = "raise" THEN loop
  ELSE Returned(BuildOf([Extend(loop.result, global_result) EXCEPT !.info =
                           Append(@, Diag("validation_summary", INFO, "root"))]))

\* GDXYamlParser.validate_column_transformations without its decorators
ColumnTransformationsBody(table, yaml_content) ==
  CASE ~IsContainer(yaml_content) -> Raised(NotContainerText(yaml_content.t))
    [] IsContainer(yaml_content) /\ ~KeyIn("mappings", yaml_content) ->
         Returned(create_error_result("missing_section", ERROR, "root", NoException))
    [] yaml_content.t = "dict" /\ "mappings" \in DOMAIN yaml_content.d ->
         WithGlobalRules(MappingLoop(table, yaml_content.d.mappings, TransformationCategories,
                                     EmptyBuilder),
                         EngineApply(table, yaml_content, "root", << "performance", "numeric" >>))

validate_column_transformations(table, yaml_content) ==
  validate_with_metrics(log_validation_start_end(ColumnTransformationsBody(table, yaml_content)),
                        "validate_column_transformations")

\* GDXYamlParser.validate
GDXYamlParser_validate(table, yaml_content) ==
  validate_with_metrics(
    log_validation_start_end(validate_column_transformations(table, yaml_content)), "validate")

\* base_result.merge(enhanced_result), base being what the call that gives
\* base_result did
MergedWith(base, enhanced_result) ==
  IF base.kind = "raise" THEN base ELSE Returned(merge(base.result, enhanced_result))

\* GDXYamlParser.validate_comprehensive
GDXYamlParser_validate_comprehensive(yaml_content) ==
  validate_with_metrics(
    MergedWith(validate_column_transformations(BaseRules, yaml_content),
               EngineApply(BaseRules, yaml_content, "root",
                           << "numeric", "performance", "complexity" >>)),
    "validate_comprehensive")

MappingCategories ==
  << "structure", "mapping", "columns", "duplications", "source", "consistency" >>

\* validate_comprehensive: the builder after the settings section of doc
SettingsBuilder(doc) ==
  IF "settings" \in DOMAIN doc
  THEN Extend(EmptyBuilder,
              EngineApply(ComprehensiveRules, doc.settings, "settings",
                          << "structure", "settings", "partition" >>))
  ELSE EmptyBuilder

\* validate_comprehensive: the loop over the mappings of doc, b1 being the
\* builder after the settings
MappingsAfter(doc, b1) ==
  IF "mappings" \in DOMAIN doc
  THEN MappingLoop(ComprehensiveRules, doc.mappings, MappingCategories, b1)
  ELSE Returned(b1)

\* validate_comprehensive: unless the loop raised, the result of
\* validate_column_transformations is added and the result is built
ThenTransformations(loop, transformation_result) ==
  IF loop.kind = "raise" THEN loop
  ELSE Returned(BuildOf(Extend(loop.result, transformation_result.result)))

\* ComprehensiveYamlValidator.validate_comprehensive, for a document that is a dict
ComprehensiveYamlValidator_validate_comprehensive(yaml_content) ==
  ThenTransformations(
    MappingsAfter(yaml_content.d, SettingsBuilder(yaml_content.d)),
    validate_column_transformations(ComprehensiveRules, yaml_content))

\* core.py ValidationErrorHandler.safe_validation_call; default_result is an
\* Optional result, and "if default_result:" is its __bool__ when it is given
safe_validation_call(outcome, error_context, default_result) ==
  IF outcome.kind = "return" THEN outcome
  ELSE IF ~IsNone(default_result) /\ ResultBool(Get(default_result))
  THEN Returned(Get(default_result))
  ELSE Returned(create_exception_result(outcome.exception, error_context))

\* What is handed to a parser: a file that is missing, a text without characters,
\* a text that is not YAML, a text without data (comments only), or a text that
\* yaml.safe_load turns into content.
Source(kind, content) == [kind |-> kind, content |-> content]
MissingFile == Source("missing", PyNone)
EmptyText == Source("empty", PyNone)
MalformedText == Source("malformed", PyNone)
NullText == Source("null", PyNone)
Parsed(content) == Source("parsed", content)

\* str(e) of the exceptions of open() and yaml.safe_load
FileNotFoundText == "[Errno 2] No such file or directory"
YamlErrorText == "mapping values are not allowed here"

\* "yaml_content or {}": None, an empty list, dict or str are falsy
OrEmptyDict(v) ==
  IF \/ v.t = "NoneType"
     \/ v.t = "list" /\ v.items = << >>
     \/ v.t = "str" /\ v.s = << >>
     \/ v.t = "dict" /\ DOMAIN v.d = {}
  THEN PyDict(EmptyDict) ELSE v

\* GDXYamlParser.parse_yaml_file and parse_yaml_string (a string is never missing)
GDXYamlParser_parse(source) ==
  CASE source.kind = "missing" -> Raised(FileNotFoundText)
    [] source.kind = "malformed" -> Raised(YamlErrorText)
    [] source.kind \in {"empty", "null"} -> Returned(PyDict(EmptyDict))
    [] source.kind = "parsed" -> Returned(OrEmptyDict(source.content))

\* GDXYamlParser.validate_yaml_file and validate_yaml_string
GDXYamlParser_validate_yaml(source, error_context) ==
  LET parsed == GDXYamlParser_parse(source)
  IN IF parsed.kind = "return" THEN GDXYamlParser_validate(BaseRules, parsed.result)
     ELSE safe_validation_call(GDXYamlParser_validate(BaseRules, PyDict(EmptyDict)),
                               error_context, NoneVal)

\* parsers.py YamlParser.parse_yaml_file
YamlParser_parse_yaml_file(source) ==
  CASE source.kind = "missing" -> Raised("YAML file not found")
    [] source.kind = "empty" -> Raised("YAML file is empty")
    [] source.kind = "malformed" -> Raised("YAML parsing error in file")
    [] source.kind = "null" -> Returned(PyDict(EmptyDict))
    [] source.kind = "parsed" /\ source.content.t # "dict" ->
         Raised("Unexpected error parsing file: YAML file must contain a dictionary at root level")
    [] source.kind = "parsed" /\ source.content.t = "dict" -> Returned(source.content)

\* parsers.py YamlParser.parse_yaml_string
YamlParser_parse_yaml_string(source) ==
  CASE source.kind = "empty" -> Raised("YAML string is empty or contains only whitespace")
    [] source.kind = "malformed" -> Raised("YAML parsing error")
    [] source.kind = "null" -> Returned(PyDict(EmptyDict))
    [] source.kind = "parsed" /\ source.content.t # "dict" ->
         Raised("Unexpected error parsing YAML string: YAML string must contain a dictionary at root level")
    [] source.kind = "parsed" /\ source.content.t = "dict" -> Returned(source.content)

\* factory.py ValidatorType
BASIC == "basic"
COMPREHENSIVE == "comprehensive"

\* factory.py: "except Exception as e: return create_exception_result(e, context)"
ExceptionToResult(outcome, context) ==
  IF outcome.kind = "raise"
  THEN Returned(create_exception_result(outcome.exception, context))
  ELSE outcome

\* factory.py validate_file and validate_string after the parse: the validator of
\* the type is created and its validate_comprehensive is called, all inside try
FactoryValidate(parsed, validator_type, context) ==
  ExceptionToResult(IF parsed.kind = "raise" THEN parsed
                    ELSE IF validator_type = BASIC
                    THEN GDXYamlParser_validate_comprehensive(parsed.result)
                    ELSE ComprehensiveYamlValidator_validate_comprehensive(parsed.result),
                    context)

validate_file(source, validator_type) ==
  FactoryValidate(YamlParser_parse_yaml_file(source), validator_type, "validate_file")

validate_string(source, validator_type) ==
  FactoryValidate(YamlParser_parse_yaml_string(source), validator_type, "validate_string")

\* ------------------------------------------------------------------------
\* core.py ValidationMetrics: what the entry points write to self.metrics.
\* started and ended tell whether start_time and end_time are set;
\* operations_validated counts the items of "transformations" arrays, which no
\* document of the model has.
\* ------------------------------------------------------------------------
ValidationMetrics ==
  [started |-> FALSE, ended |-> FALSE, mappings_validated |-> 0,
   transformations_validated |-> 0]

\* the calls of increment_transformations in _validate_transformation_structure_rule
CountedTransformations(data) ==
  IF data.t = "dict" /\ "column_transformations" \in DOMAIN data.d
     /\ data.d.column_transformations.t = "list"
  THEN Len(data.d.column_transformations.items)
  ELSE 0

\* the calls of increment_transformations in apply_rules(data, rule_categories=cats)
ApplyCounts(table, data, cats) ==
  IF \E i \in 1..Len(table) : /\ table[i].name = "validate_transformation_structure"
                              /\ Selected(table[i], Some(cats))
  THEN CountedTransformations(data)
  ELSE 0

\* the elements the loop over the mappings section applies the rules to: all
\* of them, or those before the first element that is no dict
LoopedMappings(mappings) ==
  IF ~IsIterable(mappings) THEN << >>
  ELSE LET elems == Iter(mappings)
           bad == {i \in 1..Len(elems) : elems[i].t # "dict"}
       IN IF bad = {} THEN elems
          ELSE SubSeq(elems, 1, (CHOOSE i \in bad : \A j \in bad : i <= j) - 1)

RECURSIVE SumCounts(_, _, _)
SumCounts(table, elems, cats) ==
  IF elems = << >> THEN 0
  ELSE ApplyCounts(table, Head(elems), cats) + SumCounts(table, Tail(elems), cats)

\* the loop over the mappings ends without raising
LoopEnds(mappings) ==
  IsIterable(mappings) /\ Len(LoopedMappings(mappings)) = Len(Iter(mappings))

\* self.metrics after validate_column_transformations(yaml_content): nothing
\* is written without a mappings section, end_validation is not reached when
\* the loop raises
MetricsAfterTransformations(m, table, yaml_content) ==
  IF yaml_content.t = "dict" /\ "mappings" \in DOMAIN yaml_content.d
  THEN [started |-> TRUE,
        ended |-> m.ended \/ LoopEnds(yaml_content.d.mappings),
        mappings_validated |->
          m.mappings_validated + Len(LoopedMappings(yaml_content.d.mappings)),
        transformations_validated |->
          m.transformations_validated
          + SumCounts(table, LoopedMappings(yaml_content.d.mappings),
                      TransformationCategories)
          + IF LoopEnds(yaml_content.d.mappings)
            THEN ApplyCounts(table, yaml_content, << "performance", "numeric" >>)
            ELSE 0]
  ELSE m

\* self.metrics after GDXYamlParser.validate_comprehensive(yaml_content)
MetricsAfterParserComprehensive(m, yaml_content) ==
  [MetricsAfterTransformations(m, BaseRules, yaml_content) EXCEPT
     !.transformations_validated =
        @ + ApplyCounts(BaseRules, yaml_content, << "numeric", "performance", "complexity" >>)]

\* the calls of increment_transformations in the settings part and in the loop
\* of ComprehensiveYamlValidator.validate_comprehensive
CountedBefore(doc) ==
  (IF "settings" \in DOMAIN doc
   THEN ApplyCounts(ComprehensiveRules, doc.settings, << "structure", "settings", "partition" >>)
   ELSE 0)
  + (IF "mappings" \in DOMAIN doc
     THEN SumCounts(ComprehensiveRules, LoopedMappings(doc.mappings), MappingCategories)
     ELSE 0)

\* self.metrics after ComprehensiveYamlValidator.validate_comprehensive(yaml_content):
\* validate_column_transformations is reached unless the loop raised
MetricsAfterComprehensive(m, yaml_content) ==
  IF "mappings" \in DOMAIN yaml_content.d /\ ~LoopEnds(yaml_content.d.mappings)
  THEN [m EXCEPT !.transformations_validated = @ + CountedBefore(yaml_content.d)]
  ELSE MetricsAfterTransformations(
         [m EXCEPT !.transformations_validated = @ + CountedBefore(yaml_content.d)],
         ComprehensiveRules, yaml_content)

\* self.metrics after validate_yaml_file / validate_yaml_string: validate is
\* called on what was parsed, or on {} when the parse raised
MetricsAfterYaml(m, source) ==
  IF GDXYamlParser_parse(source).kind = "return"
  THEN MetricsAfterTransformations(m, BaseRules, GDXYamlParser_parse(source).result)
  ELSE m

\* the counters are below the bound up to which the model lets them grow
CanCount ==
  metrics.mappings_validated < MaxCounted /\ metrics.transformations_validated < MaxCounted

\* ------------------------------------------------------------------------
\* The documents and sources validated
\* ------------------------------------------------------------------------
ValidName == PyStr(<< "o", "k" >>)
InvalidName == PyStr(<< "n", " " >>)

\* the elements of a mappings list: maps with and without a name, and non-maps
MappingEntries ==
  { PyNone, PyStr(<< "x" >>), PyDict(EmptyDict),
    PyDict([mapping_name |-> ValidName]), PyDict([mapping_name |-> InvalidName]) }

MappingLists ==
  { PyList(s) : s \in UNION { [1..n -> MappingEntries] : n \in 0..MaxMappings } }

\* the values of the mappings section: lists, and null, a scalar and a map
MappingsSections == MappingLists \cup { PyNone, PyInt, PyStr(<< "x" >>), PyDict([a |-> PyInt]) }

\* the values of the settings section
SettingsSections ==
  { PyNone, PyStr(<< "x" >>), PyList(<< >>), PyDict(EmptyDict),
    PyDict([load |-> PyStr(<< "f", "u", "l", "l" >>)]), PyDict([load |-> PyStr(<< "x" >>)]) }

Documents ==
  { PyDict(EmptyDict) }
    \cup { PyDict([mappings |-> m]) : m \in MappingsSections }
    \cup { PyDict([settings |-> s]) : s \in SettingsSections }
    \cup { PyDict([settings |-> s, mappings |-> m]) : s \in SettingsSections, m \in MappingsSections }

Column(expr, alias) == [kind |-> "column", expr |-> expr, alias |-> alias]

\* the text of the entry
ColumnText(entry) ==
  IF IsNone(entry.alias) THEN entry.expr ELSE entry.expr \o << " ", "a", "s", " " >> \o Get(entry.alias)

ColumnExprs ==
  { << "i", "d" >>, << "t", ".", "i", "d" >>, << "s", "u", "b", "s", "c", "r", "i", "p", "t", "i", "o", "n", "_", "i", "d" >>, << "e", "x", "e", "c", "u", "t", "e", "_", "s", "u", "m", "m", "a", "r", "y" >>, << "e", "x", "e", "c", "(", "'", "x", "'", ")" >>,
    << "i", "d", ",", " ", "e", "x", "e", "c", "(", "'", "x", "'", ")" >>, << "c", "a", "s", "t", "(", "x", " ", "a", "s", " ", "i", "n", "t", ")" >>, << "C", "A", "S", "E", " ", "W", "H", "E", "N", " ", "x", " ", "a", "s", " ", "y", " ", "T", "H", "E", "N", " ", "1", " ", "E", "N", "D" >>,
    << "a", " ", "+", " ", "b" >>, << "f", "(", "x", ")", " ", "a", "s", " ", "a", ",", " ", "g", "(", "y", ")" >> }

ColumnAliases == { << "r", "i", "d" >>, << "R", "I", "D" >>, << "s", "u", "b", "_", "i", "d" >>, << "r" >> }

Columns ==
  {Column(expr, Some(alias)) : expr \in ColumnExprs, alias \in ColumnAliases}
    \cup {Column(expr, NoneVal) : expr \in ColumnExprs}

\* the source_columns_interested sections of the model: no list, lists without
\* an entry or with an entry that is no str, and lists of one entry
SourceEntries ==
  { Column(<< "i", "d" >>, Some(<< "r", "i", "d" >>)), Column(<< "i", "d" >>, Some(<< "R", "I", "D" >>)),
    Column(<< "c", "a", "s", "t", "(", "x", " ", "a", "s", " ", "i", "n", "t", ")" >>, Some(<< "r", "i", "d" >>)), Column(<< "i", "d" >>, NoneVal) }

SourceColumnsSections ==
  { PyInt, PyList(<< >>), PyList(<< PyInt >>) }
    \cup { PyList(<< PyStr(ColumnText(entry)) >>) : entry \in SourceEntries }

TransformationAliases == { << "r", "i", "d" >>, << "R", "I", "D" >>, << "m", "i", "s", "s", "i", "n", "g" >> }

\* the column_transformations sections of the model: one direct_mapping
\* transformation, with and without its data_type
Transformation(source_alias) ==
  [source_alias |-> PyStr(source_alias), target_column |-> PyStr(<< "t" >>),
   transformation_type |-> PyStr(<< "d", "i", "r", "e", "c", "t", "_", "m", "a", "p", "p", "i", "n", "g" >>)]

TransformationsSections ==
  { PyList(<< PyDict(Transformation(a)) >>) : a \in TransformationAliases }
    \cup { PyList(<< PyDict(Transformation(a)
                                @@ [data_type |-> PyStr(<< "I", "N", "T" >>)]) >>) :
             a \in TransformationAliases }

\* the mappings with column sections
ColumnMappings ==
  { PyDict([mapping_name |-> ValidName, column_transformations |-> t]) :
      t \in TransformationsSections }
    \cup { PyDict([mapping_name |-> ValidName, source_columns_interested |-> c]) :
             c \in SourceColumnsSections }
    \cup { PyDict([mapping_name |-> ValidName, source_columns_interested |-> c,
                   column_transformations |-> t]) :
             c \in SourceColumnsSections, t \in TransformationsSections }

\* the documents with one mapping that has column sections
MappingDocuments == { PyDict([mappings |-> PyList(<< m >>)]) : m \in ColumnMappings }

\* the columns_mapping sections: the mapped column is declared (rid) or not (ghost)
ColumnsMappingSections ==
  { PyDict(<< "r", "i", "d" >> :> PyStr(<< "t" >>)), PyDict(<< "g", "h", "o", "s", "t" >> :> PyStr(<< "t" >>)) }

\* the column_duplications sections: the duplicated column is declared or not
ColumnDuplicationsSections ==
  { PyList(<< PyDict([source_column |-> PyStr(c), additional_columns |-> PyList(<< PyStr(<< "a" >>) >>)]) >>) :
      c \in { << "r", "i", "d" >>, << "g", "h", "o", "s", "t" >> } }

\* the sections of a mapping that declares the column rid
DeclaringRid ==
  [mapping_name |-> ValidName,
   source_columns_interested |-> PyList(<< PyStr(<< "i", "d", " ", "a", "s", " ", "r", "i", "d" >>) >>)]

WithSection(d, key, sections) == {d} \cup {d @@ (key :> v) : v \in sections}

\* the mappings that refer to columns in columns_mapping or column_duplications
ConsistencyMappings ==
  { PyDict(d) :
      d \in { d \in UNION { WithSection(d2, "column_transformations", TransformationsSections) :
                  d2 \in UNION { WithSection(d1, "column_duplications", ColumnDuplicationsSections) :
                           d1 \in WithSection(DeclaringRid, "columns_mapping", ColumnsMappingSections) } } :
                DOMAIN d \cap {"columns_mapping", "column_duplications"} # {} } }

ConsistencyDocuments == { PyDict([mappings |-> PyList(<< m >>)]) : m \in ConsistencyMappings }

\* a step of a "transformations" array
Step(type) == PyDict([type |-> PyStr(type)])
StepWith(type, parameters) == PyDict([type |-> PyStr(type), parameters |-> parameters])

\* the "transformations" arrays: null, empty, six steps, two roundings, four
\* additions, a division undone by a multiplication, and a division whose
\* parameters are null
Chains ==
  { PyNone, PyList(<< >>),
    PyList([k \in 1..6 |-> Step(<< "t", "r", "i", "m" >>)]),
    PyList(<< Step(<< "r", "o", "u", "n", "d" >>), Step(<< "f", "l", "o", "o", "r" >>) >>),
    PyList([k \in 1..4 |-> Step(<< "a", "d", "d" >>)]),
    PyList(<< StepWith(<< "d", "i", "v", "i", "d", "e" >>, PyDict([factor |-> PyNumber(1)])),
              StepWith(<< "m", "u", "l", "t", "i", "p", "l", "y" >>, PyDict([factor |-> PyNumber(1)])) >>),
    PyList(<< StepWith(<< "d", "i", "v", "i", "d", "e" >>, PyNone), Step(<< "m", "u", "l", "t", "i", "p", "l", "y" >>) >>) }

\* the documents with one complete direct_mapping transformation that carries
\* a "transformations" array
ChainDocuments ==
  { PyDict([mappings |-> PyList(<<
      PyDict([mapping_name |-> ValidName,
              column_transformations |-> PyList(<<
                PyDict(Transformation(<< "a" >>) @@ [data_type |-> PyStr(<< "I", "N", "T" >>),
                                               transformations |-> c]) >>)]) >>)]) :
      c \in Chains }

StringSources ==
  { EmptyText, MalformedText, NullText, Parsed(PyList(<< PyInt >>)) }
    \cup { Parsed(d) : d \in Documents }
FileSources == StringSources \cup { MissingFile }

ValidatorClasses == { "GDXYamlParser", "ComprehensiveYamlValidator" }
RulesOf(class) == IF class = "GDXYamlParser" THEN BaseRules ELSE ComprehensiveRules

\* ------------------------------------------------------------------------
\* The entry points as actions: held is what the caller holds (a file, a
\* string, or the document parsed from it), lastCall the latest call on it
\* and what the call did
\* ------------------------------------------------------------------------
Call(entry, parse, outcome) == [entry |-> entry, parse |-> parse, outcome |-> outcome]

\* the caller holds a document
HoldsDocument ==
  /\ held.kind = "parsed"
  /\ held.content \in Documents \cup MappingDocuments \cup ConsistencyDocuments
                        \cup ChainDocuments

\* the caller holds a string
HoldsString == held.kind # "missing"

ValidateInit ==
  /\ held = Parsed(PyDict(EmptyDict))
  /\ lastCall = NoneVal
  /\ metrics = ValidationMetrics

\* GDXJobValidator.__init__(validation_mode=mode)
JobInitWith(mode) ==
  /\ validation_history = << >>
  /\ stored = << >>
  /\ validation_mode = mode
  /\ comprehensive_validator = "ComprehensiveYamlValidator"

\* GDXJobValidator()
JobInit == JobInitWith("comprehensive")

Validate(class) ==
  /\ CanCount
  /\ HoldsDocument
  /\ lastCall' = Some(Call("validate", NoneVal,
                           GDXYamlParser_validate(RulesOf(class), held.content)))
  /\ metrics' = MetricsAfterTransformations(metrics, RulesOf(class), held.content)
  /\ UNCHANGED << held, notValidate >>

ValidateColumnTransformations(class) ==
  /\ CanCount
  /\ HoldsDocument
  /\ lastCall' = Some(Call("validate_column_transformations", NoneVal,
                           validate_column_transformations(RulesOf(class), held.content)))
  /\ metrics' = MetricsAfterTransformations(metrics, RulesOf(class), held.content)
  /\ UNCHANGED << held, notValidate >>

ParserValidateComprehensive ==
  /\ CanCount
  /\ HoldsDocument
  /\ lastCall' = Some(Call("GDXYamlParser.validate_comprehensive", NoneVal,
                           GDXYamlParser_validate_comprehensive(held.content)))
  /\ metrics' = MetricsAfterParserComprehensive(metrics, held.content)
  /\ UNCHANGED << held, notValidate >>

ValidateComprehensive ==
  /\ CanCount
  /\ HoldsDocument
  /\ lastCall' = Some(Call("validate_comprehensive", NoneVal,
                           ComprehensiveYamlValidator_validate_comprehensive(held.content)))
  /\ metrics' = MetricsAfterComprehensive(metrics, held.content)
  /\ UNCHANGED << held, notValidate >>

ValidateYamlFile ==
  /\ CanCount
  /\ lastCall' = Some(Call("validate_yaml_file", Some(GDXYamlParser_parse(held)),
                           GDXYamlParser_validate_yaml(held, "Failed to process YAML file")))
  /\ metrics' = MetricsAfterYaml(metrics, held)
  /\ UNCHANGED << held, notValidate >>

ValidateYamlString ==
  /\ CanCount
  /\ HoldsString
  /\ lastCall' = Some(Call("validate_yaml_string", Some(GDXYamlParser_parse(held)),
                           GDXYamlParser_validate_yaml(held, "Failed to process YAML string")))
  /\ metrics' = MetricsAfterYaml(metrics, held)
  /\ UNCHANGED << held, notValidate >>

ValidateFile(validator_type) ==
  /\ lastCall' = Some(Call("validate_file", Some(YamlParser_parse_yaml_file(held)),
                           validate_file(held, validator_type)))
  /\ UNCHANGED << held, metrics, notValidate >>

ValidateString(validator_type) ==
  /\ HoldsString
  /\ lastCall' = Some(Call("validate_string", Some(YamlParser_parse_yaml_string(held)),
                           validate_string(held, validator_type)))
  /\ UNCHANGED << held, metrics, notValidate >>

ValidateNext ==
  \/ \E class \in ValidatorClasses : Validate(class)
  \/ \E class \in ValidatorClasses : ValidateColumnTransformations(class)
  \/ ParserValidateComprehensive
  \/ ValidateComprehensive
  \/ ValidateYamlFile
  \/ ValidateYamlString
  \/ \E validator_type \in {BASIC, COMPREHENSIVE} : ValidateFile(validator_type)
  \/ \E validator_type \in {BASIC, COMPREHENSIVE} : ValidateString(validator_type)

\* ------------------------------------------------------------------------
\* One source_columns_interested entry: held is the entry the caller holds,
\* written "<expr> as <alias>" or "<expr>" alone, lastCall the latest call
\* on its text
\* ------------------------------------------------------------------------
HoldsColumn == held.kind = "column"

\* SQLExpressionColumnValidator._extract_alias_from_expression(entry)
ExtractAliasFromExpression ==
  /\ HoldsColumn
  /\ lastCall' = Some(Call("_extract_alias_from_expression", NoneVal,
                           Returned(extract_alias_from_expression(ColumnText(held)))))
  /\ UNCHANGED << held, metrics, notValidate >>

\* the alias _validate_column_consistency_rule puts into source_columns_set
ConsistencyAlias ==
  /\ HoldsColumn
  /\ lastCall' = Some(Call("_validate_column_consistency_rule", NoneVal,
                           Returned(consistency_alias(ColumnText(held)))))
  /\ UNCHANGED << held, metrics, notValidate >>

\* _validate_sql_security(entry, entry.upper(), dangerous_patterns)
ValidateSqlSecurity ==
  /\ HoldsColumn
  /\ lastCall' = Some(Call("_validate_sql_security", NoneVal,
                           Returned(validate_sql_security(ColumnText(held)))))
  /\ UNCHANGED << held, metrics, notValidate >>

ColumnsNext ==
  \/ ExtractAliasFromExpression
  \/ ConsistencyAlias
  \/ ValidateSqlSecurity

\* ------------------------------------------------------------------------
\* core.py ValidationContext, and the rule of SQLExpressionColumnValidator
\* that is handed one: held is the mapping the rule is called on
\* ------------------------------------------------------------------------
\* ValidationContext.__init__; sql_expressions and simple_columns are the
\* attributes a context does not have until they are set on it
ValidationContext(base_path, mapping_name, transformation_index, operation_index) ==
  [base_path |-> base_path, mapping_name |-> mapping_name,
   transformation_index |-> transformation_index, operation_index |-> operation_index,
   sql_expressions |-> NoneVal, simple_columns |-> NoneVal]

\* str(i) for the indexes of the model
IndexText(i) ==
  CASE i = 0 -> "0" [] i = 1 -> "1" [] i = 2 -> "2"

RECURSIVE JoinPath(_)
\* ".".join(path_parts)
JoinPath(path_parts) ==
  IF path_parts = << >> THEN ""
  ELSE IF Len(path_parts) = 1 THEN path_parts[1]
  ELSE path_parts[1] \o "." \o JoinPath(Tail(path_parts))

\* ValidationContext.get_path
get_path(context, additional_path) ==
  JoinPath((IF context.base_path # "" THEN << context.base_path >> ELSE << >>)
           \o (IF context.transformation_index >= 0
               THEN << "column_transformations[" \o IndexText(context.transformation_index)
                       \o "]" >>
               ELSE << >>)
           \o (IF context.operation_index >= 0
               THEN << "transformations[" \o IndexText(context.operation_index) \o "]" >>
               ELSE << >>)
           \o (IF additional_path # "" THEN << additional_path >> ELSE << >>))

\* kwargs.get(key, default)
KwargsGet(kwargs, key, default) == IF key \in DOMAIN kwargs THEN kwargs[key] ELSE default

\* ValidationContext.create_child_context(**kwargs)
create_child_context(context, kwargs) ==
  ValidationContext(KwargsGet(kwargs, "base_path", context.base_path),
                    KwargsGet(kwargs, "mapping_name", context.mapping_name),
                    KwargsGet(kwargs, "transformation_index", context.transformation_index),
                    KwargsGet(kwargs, "operation_index", context.operation_index))

\* SQLExpressionColumnValidator._looks_like_sql_expression
sql_indicators ==
  << << "C", "A", "S", "E" >>, << "c", "a", "s", "e" >>, << "|", "|" >>, << "+" >>, << "-" >>, << "*" >>, << "/" >>, << "(" >>, << "C", "O", "N", "C", "A", "T" >>, << "c", "o", "n", "c", "a", "t" >>, << "C", "O", "A", "L", "E", "S", "C", "E" >>,
     << "c", "o", "a", "l", "e", "s", "c", "e" >>, << "C", "A", "S", "T" >>, << "c", "a", "s", "t" >>, << "S", "U", "B", "S", "T", "R", "I", "N", "G" >>, << "s", "u", "b", "s", "t", "r", "i", "n", "g" >> >>

looks_like_sql_expression(column_expr) ==
  \E k \in 1..Len(sql_indicators) : In(sql_indicators[k], column_expr)

\* _extract_column_name after the part before " as " was taken
AfterTablePrefix(clean_expr) ==
  StripChars(IF In(<< "." >>, clean_expr)
             THEN Split(clean_expr, << "." >>)[Len(Split(clean_expr, << "." >>))]
             ELSE clean_expr,
             {"\"", "'"})

\* _extract_column_name of the stripped text
BeforeAs(clean_expr, low) ==
  AfterTablePrefix(IF In(<< " ", "a", "s", " " >>, low)
                   THEN StripChars(Split(low, << " ", "a", "s", " " >>)[1], Whitespace)
                   ELSE clean_expr)

\* SQLExpressionColumnValidator._extract_column_name
extract_column_name(column_expr) ==
  BeforeAs(StripChars(column_expr, Whitespace), lower(StripChars(column_expr, Whitespace)))

\* SQLExpressionColumnValidator._validate_expression_structure
validate_expression_structure(expression, path) ==
  (IF Cardinality(Occurrences(expression, << "\"" >>)) % 2 # 0
   THEN << Diag("unbalanced_quotes", ERROR, path) >> ELSE << >>)
  \o (IF Cardinality(Occurrences(expression, << "(" >>))
          # Cardinality(Occurrences(expression, << ")" >>))
      THEN << Diag("unbalanced_parentheses", ERROR, path) >> ELSE << >>)

\* "source_columns_interested[i]" for the entry at place i
EntryPath(i) == "source_columns_interested[" \o IndexText(i - 1) \o "]"

\* the entries of source_columns that are strs, and of those the ones
\* _extract_alias_from_expression finds an alias in
IsStrEntry(entry) == entry.t = "str"
HasAlias(entry) ==
  IsStrEntry(entry) /\ ~IsNone(extract_alias_from_expression(entry.s))
  /\ Get(extract_alias_from_expression(entry.s)) # << >>

\* what the loop of _validate_sql_expression_aliases_rule adds to errors for
\* the entry at place i
EntryErrors(entry, context, i) ==
  IF ~IsStrEntry(entry) THEN << >>
  ELSE IF HasAlias(entry)
  THEN validate_expression_structure(entry.s, get_path(context, EntryPath(i)))
  ELSE IF looks_like_sql_expression(entry.s)
  THEN << Diag("sql_expression_missing_alias", ERROR, get_path(context, EntryPath(i))) >>
  ELSE << >>

\* the dict sql_expressions after the loop: alias -> the last entry with that alias
SqlExpressions(source_columns) ==
  LET aliased == {i \in 1..Len(source_columns) : HasAlias(source_columns[i])}
      AliasAt(i) == Get(extract_alias_from_expression(source_columns[i].s))
  IN [alias \in {AliasAt(i) : i \in aliased} |->
        source_columns[Max({i \in aliased : AliasAt(i) = alias})].s]

\* the set simple_columns after the loop
SimpleColumns(source_columns) ==
  {extract_column_name(source_columns[i].s) :
     i \in {j \in 1..Len(source_columns) :
              /\ IsStrEntry(source_columns[j]) /\ ~HasAlias(source_columns[j])
              /\ ~looks_like_sql_expression(source_columns[j].s)}}

\* hasattr(context, "sql_expressions")
HasSqlExpressions(context) == ~IsNone(context.sql_expressions)

\* the context after _validate_sql_expression_aliases_rule(mapping, context),
\* for a mapping that is a dict
ContextAfterAliasesRule(mapping, context) ==
  IF "source_columns_interested" \in DOMAIN mapping.d
     /\ IsIterable(mapping.d.source_columns_interested)
     /\ ~HasSqlExpressions(context)
  THEN [context EXCEPT
          !.sql_expressions = Some(SqlExpressions(Iter(mapping.d.source_columns_interested))),
          !.simple_columns = Some(SimpleColumns(Iter(mapping.d.source_columns_interested)))]
  ELSE context

\* SQLExpressionColumnValidator._validate_sql_expression_aliases_rule(mapping, context),
\* for a mapping that is a dict
validate_sql_expression_aliases_rule(mapping, context) ==
  IF "source_columns_interested" \notin DOMAIN mapping.d THEN NoItems
  ELSE IF ~IsIterable(mapping.d.source_columns_interested)
  THEN Raises(NotIterableText(mapping.d.source_columns_interested.t))
  ELSE ReturnsList(Flatten([i \in 1..Len(Iter(mapping.d.source_columns_interested)) |->
                              EntryErrors(Iter(mapping.d.source_columns_interested)[i],
                                          context, i)]))

\* the keyword arguments create_child_context is called with
Overrides ==
  { EmptyDict,
    [transformation_index |-> 0],
    [operation_index |-> 2],
    [base_path |-> "mappings[0]", mapping_name |-> "ok"] }

\* the mappings the rule is called on
SqlMappings ==
  { PyDict([mapping_name |-> ValidName]) }
    \cup { PyDict([mapping_name |-> ValidName, source_columns_interested |-> section]) :
             section \in
               { PyInt, PyList(<< >>), PyList(<< PyInt >>), PyList(<< PyStr(<< "i", "d", " ", "a", "s", " ", "r", "i", "d" >>), PyStr(<< "t", ".", "n", "a", "m", "e" >>) >>),
                 PyList(<< PyStr(<< "a", " ", "+", " ", "b" >>), PyStr(<< "f", "(", "x", " ", "a", "s", " ", "r", "i", "d" >>) >>),
                 PyList(<< PyStr(<< "i", "d", " ", "a", "s", " ", "r", "i", "d" >>), PyStr(<< "x", " ", "a", "s", " ", "r", "i", "d" >>) >>) } }

HoldsMapping == held.kind = "mapping" /\ held.content \in SqlMappings

\* the caller has made ValidationContext(base_path="root")
ContextInit == contexts = << ValidationContext("root", "", -1, -1) >>

\* parent.create_child_context(**kwargs), parent being the context at place p
CreateChildContext(p, kwargs) ==
  /\ p \in 1..Len(contexts)
  /\ Len(contexts) < MaxContexts
  /\ contexts' = Append(contexts, create_child_context(contexts[p], kwargs))
  /\ lastCall' = Some(Call("create_child_context", NoneVal,
                           Returned([parent |-> p, kwargs |-> kwargs,
                                     child |-> Len(contexts) + 1])))
  /\ UNCHANGED << held, metrics, notContext >>

\* the rule engine calls the rule validate_sql_expression_aliases on the
\* mapping and the context at place c
ValidateSqlExpressionAliases(c) ==
  /\ HoldsMapping
  /\ c \in 1..Len(contexts)
  /\ contexts' = [contexts EXCEPT ![c] = ContextAfterAliasesRule(held.content, contexts[c])]
  /\ lastCall' = Some(Call("_validate_sql_expression_aliases_rule", NoneVal,
                           Returned([context |-> c,
                                     returned |-> validate_sql_expression_aliases_rule(
                                                    held.content, contexts[c])])))
  /\ UNCHANGED << held, metrics, notContext >>

ContextNext ==
  \/ \E p \in 1..MaxContexts, kwargs \in Overrides : CreateChildContext(p, kwargs)
  \/ \E c \in 1..MaxContexts : ValidateSqlExpressionAliases(c)

\* ------------------------------------------------------------------------
\* validators.py GDXJobValidator: held is the job configuration the caller
\* holds, validation_history the history of the validator
\* ------------------------------------------------------------------------
\* the number of entries _store_validation_result keeps
HistoryCapacity == 50

\* the entry _store_validation_result appends; its timestamp, the wall clock
\* at the call, is left out
HistoryEntry(validation_type, result) ==
  [type |-> validation_type, result |-> result, is_valid |-> result.is_valid,
   error_count |-> Len(result.errors), warning_count |-> Len(result.warnings)]

\* a history that drops the entry just appended when it is full
KeepFirst(history) ==
  IF Len(history) > HistoryCapacity THEN SubSeq(history, 1, HistoryCapacity) ELSE history

\* self.validation_history[-50:]
KeepLast(history) ==
  IF Len(history) > HistoryCapacity
  THEN SubSeq(history, Len(history) - HistoryCapacity + 1, Len(history))
  ELSE history

\* GDXJobValidator._store_validation_result
store_validation_result(history, validation_type, result) ==
  KeepLast(Append(history, HistoryEntry(validation_type, result)))

\* the job configurations held: without mappings, with no, one valid and one
\* invalid mapping, and with a mappings section that is no list
JobDocuments ==
  { PyDict(EmptyDict),
    PyDict([mappings |-> PyList(<< >>)]),
    PyDict([mappings |-> PyList(<< PyDict([mapping_name |-> ValidName]) >>)]),
    PyDict([mappings |-> PyList(<< PyStr(<< "x" >>) >>)]),
    PyDict([mappings |-> PyInt]) }

HoldsJob == held.kind = "parsed" /\ held.content \in JobDocuments

\* the results stored by validate_job_configuration and validate_mapping_configuration
OtherStored == SelectSeq(stored, LAMBDA e : e.type # "validation")

CanStore == Len(stored) < MaxStored /\ CanCount

\* the result is stored when validate_comprehensive returned one
StoreAfter(validation_type, outcome) ==
  IF outcome.kind = "return"
  THEN /\ validation_history' =
            store_validation_result(validation_history, validation_type, outcome.result)
       /\ stored' = Append(stored, HistoryEntry(validation_type, outcome.result))
  ELSE UNCHANGED << validation_history, stored >>

\* self.comprehensive_validator.validate_comprehensive(data), class being the
\* class of the validator
validator_validate_comprehensive(class, data) ==
  IF class = "GDXYamlParser" THEN GDXYamlParser_validate_comprehensive(data)
  ELSE ComprehensiveYamlValidator_validate_comprehensive(data)

\* the metrics of the validator after that call
MetricsAfterValidator(class, m, data) ==
  IF class = "GDXYamlParser" THEN MetricsAfterParserComprehensive(m, data)
  ELSE MetricsAfterComprehensive(m, data)

\* GDXJobValidator.validate, outcome being what validate_comprehensive did
JobValidateAfter(outcome) ==
  /\ lastCall' = Some(Call("GDXJobValidator.validate", NoneVal, outcome))
  /\ StoreAfter("validation", outcome)

JobValidate ==
  /\ HoldsJob /\ CanStore
  /\ JobValidateAfter(validator_validate_comprehensive(comprehensive_validator, held.content))
  /\ metrics' = MetricsAfterValidator(comprehensive_validator, metrics, held.content)
  /\ UNCHANGED << held, modeVars, notJob >>

\* the tuple (is_valid, summary); the summary is its text without the name of
\* the mapping and the count, the count, and the text of the exception
JobAnswer(is_valid, text, count, exception) ==
  [is_valid |-> is_valid, summary |-> text, count |-> count, exception |-> exception]

\* the return value of validate_job_configuration or validate_mapping_configuration,
\* outcome being what the body of its try did
AnswerAfter(outcome, passed, failed, error) ==
  IF outcome.kind = "raise" THEN JobAnswer(FALSE, error, 0, outcome.exception)
  ELSE IF outcome.result.is_valid
  THEN JobAnswer(TRUE, passed, Len(outcome.result.warnings), NoException)
  ELSE JobAnswer(FALSE, failed, Len(outcome.result.errors), NoException)

\* GDXJobValidator.validate_job_configuration
JobConfigurationAfter(outcome) ==
  /\ lastCall' = Some(Call("validate_job_configuration", NoneVal,
                           Returned(AnswerAfter(outcome,
                                                "Job configuration validation passed",
                                                "Job configuration validation failed",
                                                "Error during job configuration validation"))))
  /\ StoreAfter("job_config", outcome)

ValidateJobConfiguration ==
  /\ HoldsJob /\ CanStore
  /\ Len(OtherStored) < MaxOther
  /\ JobConfigurationAfter(validator_validate_comprehensive(comprehensive_validator,
                                                            held.content))
  /\ metrics' = MetricsAfterValidator(comprehensive_validator, metrics, held.content)
  /\ UNCHANGED << held, modeVars, notJob >>

\* f"mapping_{mapping_name}" for mapping_config.get("mapping_name", "unknown")
MappingType(mapping_config) ==
  CASE "mapping_name" \notin DOMAIN mapping_config.d -> "mapping_unknown"
    [] "mapping_name" \in DOMAIN mapping_config.d /\ mapping_config.d.mapping_name = ValidName ->
         "mapping_ok"

\* wrapped_config
Wrapped(mapping_config) == PyDict([mappings |-> PyList(<< mapping_config >>)])

\* GDXJobValidator.validate_mapping_configuration(mapping_config) on a dict
MappingConfigurationAfter(mapping_config, outcome) ==
  /\ lastCall' = Some(Call("validate_mapping_configuration", NoneVal,
                           Returned(AnswerAfter(outcome, "Mapping validation passed",
                                                "Mapping validation failed",
                                                "Error in mapping validation"))))
  /\ StoreAfter(MappingType(mapping_config), outcome)
  /\ metrics' = MetricsAfterValidator(comprehensive_validator, metrics,
                                      Wrapped(mapping_config))

\* validate_mapping_configuration(mapping_config): mapping_config.get raises on
\* a value that is no dict, before anything is validated
MappingConfiguration(mapping_config) ==
  /\ CanStore
  /\ Len(OtherStored) < MaxOther
  /\ IF mapping_config.t = "dict"
     THEN MappingConfigurationAfter(
            mapping_config,
            validator_validate_comprehensive(comprehensive_validator,
                                             Wrapped(mapping_config)))
     ELSE /\ lastCall' = Some(Call("validate_mapping_configuration", NoneVal,
                                   Returned(JobAnswer(FALSE, "Error in mapping validation", 0,
                                                      NoGetTextOf(mapping_config.t)))))
          /\ UNCHANGED << metrics, validation_history, stored >>
  /\ UNCHANGED << held, modeVars, notJob >>

\* validate_mapping_configuration called on the element at place i of the
\* mappings list the caller holds
ValidateMappingConfiguration(i) ==
  /\ HoldsJob
  /\ "mappings" \in DOMAIN held.content.d
  /\ held.content.d.mappings.t = "list"
  /\ i \in 1..Len(held.content.d.mappings.items)
  /\ MappingConfiguration(held.content.d.mappings.items[i])

\* GDXJobValidator.clear_validation_history
ClearValidationHistory ==
  /\ validation_history' = << >>
  /\ stored' = << >>
  /\ UNCHANGED << validateVars, modeVars, notJob >>

\* the arguments of set_validation_mode and of the constructor
ModeArguments == { "comprehensive", "standard", "quick" }

\* GDXJobValidator.set_validation_mode(mode); the GDXYamlParser made for the
\* standard mode has metrics of its own
SetValidationMode(mode) ==
  /\ LET used == IF mode \notin { "comprehensive", "standard" } THEN "comprehensive" ELSE mode
     IN /\ validation_mode' = used
        /\ IF used = "standard"
           THEN /\ comprehensive_validator' = "GDXYamlParser"
                /\ metrics' = ValidationMetrics
           ELSE UNCHANGED << comprehensive_validator, metrics >>
  /\ lastCall' = Some(Call("set_validation_mode", NoneVal, Returned(mode)))
  /\ UNCHANGED << held, validation_history, stored, notJob >>

\* set_validation_mode between validations
ModesNext ==
  \/ \E mode \in ModeArguments : SetValidationMode(mode)
  \/ JobValidate
  \/ ValidateJobConfiguration

JobNext ==
  \/ JobValidate
  \/ ValidateJobConfiguration
  \/ \E i \in 1..MaxMappings : ValidateMappingConfiguration(i)
  \/ ClearValidationHistory

\* ------------------------------------------------------------------------
\* logging_adapter.py LoggerFactory and config.py: the library-wide logging
\* configuration and LoggingContext
\* ------------------------------------------------------------------------
\* LoggerFactory._default_config as the class body makes it
DefaultLoggingConfig ==
  [standalone_level |-> "WARNING", silent_mode |-> FALSE, force_console |-> FALSE,
   debug_mode |-> FALSE]

\* cls._default_config.update(config)
configure(current, config) ==
  [k \in DOMAIN current \cup DOMAIN config |->
     IF k \in DOMAIN config THEN config[k] ELSE current[k]]

\* the keyword parameters of configure_logging
ConfigureLoggingParameters == {"level", "silent", "force_console", "debug"}

\* keyword argument key of a call, or the default of the parameter
Keyword(config, key, default) == IF key \in DOMAIN config THEN config[key] ELSE default

\* configure_logging(**config), every key of config being one of its parameters
configure_logging(current, config) ==
  configure(current,
            [standalone_level |-> Keyword(config, "level", "WARNING"),
             silent_mode |-> Keyword(config, "silent", FALSE),
             force_console |-> Keyword(config, "force_console", FALSE),
             debug_mode |-> Keyword(config, "debug", FALSE)])

\* the keyword arguments of the configure_for_... functions
ConfigurePresets ==
  [configure_for_testing |-> [silent |-> TRUE],
   configure_for_standalone |-> [level |-> "WARNING"]]

\* the keyword arguments LoggingContext objects are made with; the last one
\* names no parameter of configure_logging
LoggingContextConfigs ==
  { [debug |-> TRUE, force_console |-> TRUE], [level |-> "INFO"], [verbose |-> TRUE] }

\* the keyword arguments of the direct LoggerFactory.configure calls
FactoryConfigs == { [log_format |-> "json"] }

\* a call, the context object it was made on (0: none) and, for __exit__, the
\* configuration on entry of the with block
LoggingCall(entry, context, entered) ==
  [entry |-> entry, context |-> context, entered |-> entered]

LoggingInit ==
  /\ default_config = DefaultLoggingConfig
  /\ logging_contexts = << >>
  /\ with_blocks = << >>
  /\ lastLogging = NoneVal

\* configure_for_production() and configure_for_testing()
ConfigurePreset(name) ==
  /\ default_config' = configure_logging(default_config, ConfigurePresets[name])
  /\ lastLogging' = Some(LoggingCall(name, 0, NoneVal))
  /\ UNCHANGED << logging_contexts, with_blocks, notLogging >>

\* LoggerFactory.configure(**config)
FactoryConfigure(config) ==
  /\ default_config' = configure(default_config, config)
  /\ lastLogging' = Some(LoggingCall("configure", 0, NoneVal))
  /\ UNCHANGED << logging_contexts, with_blocks, notLogging >>

\* reset_logging_config()
ResetLoggingConfig ==
  /\ default_config' = DefaultLoggingConfig
  /\ lastLogging' = Some(LoggingCall("reset_logging_config", 0, NoneVal))
  /\ UNCHANGED << logging_contexts, with_blocks, notLogging >>

\* LoggingContext(**config)
NewLoggingContext(config) ==
  /\ Len(logging_contexts) < MaxLoggingContexts
  /\ logging_contexts' = Append(logging_contexts,
                                [config |-> config, original_config |-> NoneVal])
  /\ lastLogging' = Some(LoggingCall("LoggingContext", Len(logging_contexts) + 1,
                                     NoneVal))
  /\ UNCHANGED << default_config, with_blocks, notLogging >>

\* with logging_contexts[i]: ... reaches __enter__; when configure_logging
\* raises the TypeError of an unexpected keyword the block is not entered
EnterLoggingContext(i) ==
  /\ i \in 1..Len(logging_contexts)
  /\ Len(with_blocks) < MaxWithDepth
  /\ logging_contexts' =
       [logging_contexts EXCEPT ![i].original_config = Some(default_config)]
  /\ IF DOMAIN logging_contexts[i].config \subseteq ConfigureLoggingParameters
     THEN /\ default_config' = configure_logging(default_config, logging_contexts[i].config)
          /\ with_blocks' = Append(with_blocks, [context |-> i, entered |-> default_config])
          /\ lastLogging' = Some(LoggingCall("__enter__", i, NoneVal))
     ELSE /\ lastLogging' = Some(LoggingCall("TypeError", i, NoneVal))
          /\ UNCHANGED << default_config, with_blocks >>
  /\ UNCHANGED notLogging

\* the innermost with block ends: __exit__ of its context object
ExitLoggingContext ==
  /\ with_blocks # << >>
  /\ LET block == with_blocks[Len(with_blocks)]
     IN /\ default_config' =
             configure(default_config,
                       Get(logging_contexts[block.context].original_config))
        /\ lastLogging' = Some(LoggingCall("__exit__", block.context, Some(block.entered)))
  /\ with_blocks' = SubSeq(with_blocks, 1, Len(with_blocks) - 1)
  /\ UNCHANGED << logging_contexts, notLogging >>

LoggingNext ==
  \/ \E name \in DOMAIN ConfigurePresets : ConfigurePreset(name)
  \/ \E config \in FactoryConfigs : FactoryConfigure(config)
  \/ ResetLoggingConfig
  \/ \E config \in LoggingContextConfigs : NewLoggingContext(config)
  \/ \E i \in 1..MaxLoggingContexts : EnterLoggingContext(i)
  \/ ExitLoggingContext

\* ------------------------------------------------------------------------
\* Specifications
\* ------------------------------------------------------------------------
Init == RegistryInit /\ ResultsInit /\ EngineInit /\ ValidateInit /\ JobInit /\ ContextInit /\ LoggingInit

\* the operation registry under registrations and lookups
SpecRegistry == Init /\ [][RegistryNext]_vars

\* the operation registry validating the parameters of divide and clamp
SpecOperations == Init /\ [][OperationsNext]_vars

\* the operation registry validating the parameters of divide and replace
SpecParameters == Init /\ [][ParametersNext]_vars

\* one builder and the results made from it
SpecResults == Init /\ [][ResultsNext]_vars

\* one rule engine under registrations and applications
SpecEngine == Init /\ [][EngineNext]_vars

\* the validation entry points called on one of the documents and sources
InitValidate ==
  /\ RegistryInit /\ ResultsInit /\ EngineInit /\ JobInit /\ ContextInit /\ LoggingInit
  /\ metrics = ValidationMetrics
  /\ held \in FileSources
  /\ lastCall = NoneVal

SpecValidate == InitValidate /\ [][ValidateNext]_vars

\* the validation entry points called on a document with column sections
InitMappings ==
  /\ RegistryInit /\ ResultsInit /\ EngineInit /\ JobInit /\ ContextInit /\ LoggingInit
  /\ metrics = ValidationMetrics
  /\ held \in {Parsed(d) : d \in MappingDocuments}
  /\ lastCall = NoneVal

SpecMappings == InitMappings /\ [][ValidateNext]_vars

\* the validation entry points called on a document whose mapping refers to
\* columns in columns_mapping or column_duplications
InitConsistency ==
  /\ RegistryInit /\ ResultsInit /\ EngineInit /\ JobInit /\ ContextInit /\ LoggingInit
  /\ metrics = ValidationMetrics
  /\ held \in {Parsed(d) : d \in ConsistencyDocuments}
  /\ lastCall = NoneVal

SpecConsistency == InitConsistency /\ [][ValidateNext]_vars

\* ------------------------------------------------------------------------
\* validators.py ExtendedGDXJobValidator._deduplicate_errors: held is a list
\* of diagnostics, lastCall the latest call on it
\* ------------------------------------------------------------------------
\* what _deduplicate_errors reads of a diagnostic, and its severity
Reported(type, message, path, severity) ==
  [type |-> type, message |-> message, path |-> path, severity |-> severity]

\* error_id = (error.get("type", ""), error.get("message", ""), error.get("path", ""))
error_id(error) == << error.type, error.message, error.path >>

RECURSIVE DeduplicateFrom(_, _, _)
\* the loop of _deduplicate_errors
DeduplicateFrom(errors, seen_errors, unique_errors) ==
  IF errors = << >> THEN unique_errors
  ELSE IF error_id(Head(errors)) \notin seen_errors
  THEN DeduplicateFrom(Tail(errors), seen_errors \cup {error_id(Head(errors))},
                       Append(unique_errors, Head(errors)))
  ELSE DeduplicateFrom(Tail(errors), seen_errors, unique_errors)

RECURSIVE KeepLastOccurrences(_)
\* a deduplication that keeps the last diagnostic of each error_id
KeepLastOccurrences(errors) ==
  IF errors = << >> THEN << >>
  ELSE IF \E k \in 2..Len(errors) : error_id(errors[k]) = error_id(Head(errors))
  THEN KeepLastOccurrences(Tail(errors))
  ELSE << Head(errors) >> \o KeepLastOccurrences(Tail(errors))

deduplicate_errors(errors) == DeduplicateFrom(errors, {}, << >>)

\* the diagnostics of the lists: two that differ in severity only, and three
\* that differ from them in message, in type and in path
ReportedDiagnostics ==
  { Reported("t1", "m1", "p1", ERROR), Reported("t1", "m1", "p1", WARNING),
    Reported("t1", "m2", "p1", ERROR), Reported("t2", "m1", "p1", ERROR),
    Reported("t1", "m1", "p2", ERROR) }

DiagnosticLists ==
  UNION { [1..n -> ReportedDiagnostics] : n \in 0..MaxDiagnostics }

Diagnostics(list) == [kind |-> "diagnostics", content |-> list]

HoldsDiagnostics == held.kind = "diagnostics"

DeduplicateErrors ==
  /\ HoldsDiagnostics
  /\ lastCall' = Some(Call("_deduplicate_errors", NoneVal,
                           Returned(deduplicate_errors(held.content))))
  /\ UNCHANGED << held, metrics, notValidate >>

\* the list is the errors of a result that is merged with itself
MergeDiagnostics ==
  /\ HoldsDiagnostics
  /\ lastCall' = Some(Call("merge", NoneVal,
                           Returned(merge(ValidationResult(FALSE, held.content, << >>, << >>),
                                          ValidationResult(FALSE, held.content, << >>, << >>)))))
  /\ UNCHANGED << held, metrics, notValidate >>

DeduplicationNext ==
  \/ DeduplicateErrors
  \/ MergeDiagnostics

InitDeduplication ==
  /\ RegistryInit /\ ResultsInit /\ EngineInit /\ JobInit /\ ContextInit /\ LoggingInit
  /\ metrics = ValidationMetrics
  /\ held \in {Diagnostics(list) : list \in DiagnosticLists}
  /\ lastCall = NoneVal

SpecDeduplication == InitDeduplication /\ [][DeduplicationNext]_vars

\* the validation entry points called on a document whose transformation has
\* a "transformations" array
InitChains ==
  /\ RegistryInit /\ ResultsInit /\ EngineInit /\ JobInit /\ ContextInit /\ LoggingInit
  /\ metrics = ValidationMetrics
  /\ held \in {Parsed(d) : d \in ChainDocuments}
  /\ lastCall = NoneVal

SpecChains == InitChains /\ [][ValidateNext]_vars

\* the alias extractions and the security pass called on one entry of
\* source_columns_interested
InitColumns ==
  /\ RegistryInit /\ ResultsInit /\ EngineInit /\ JobInit /\ ContextInit /\ LoggingInit
  /\ metrics = ValidationMetrics
  /\ held \in Columns
  /\ lastCall = NoneVal

SpecColumns == InitColumns /\ [][ColumnsNext]_vars

\* one job validator called on one job configuration
InitJob ==
  /\ RegistryInit /\ ResultsInit /\ EngineInit /\ JobInit /\ ContextInit /\ LoggingInit
  /\ metrics = ValidationMetrics
  /\ held \in {Parsed(d) : d \in JobDocuments}
  /\ lastCall = NoneVal

SpecJob == InitJob /\ [][JobNext]_vars

\* ------------------------------------------------------------------------
\* core.py ValidationErrorHandler.safe_validation_call called by itself: held
\* is the function, the error context and the default result of the call
\* ------------------------------------------------------------------------
\* the results a function returns, and a caller hands over as default_result
HandedResults ==
  { ValidationResult(TRUE, << >>, << >>, << >>),
    ValidationResult(TRUE, << >>, << Diag("unused_column", WARNING, "w") >>, << >>),
    ValidationResult(TRUE, << >>, << >>, << Diag("validation_summary", INFO, "i") >>),
    ValidationResult(FALSE, << Diag("missing_field", ERROR, "e") >>, << >>, << >>),
    ValidationResult(FALSE, << Diag("missing_field", ERROR, "e") >>,
                     << Diag("unused_column", WARNING, "w") >>, << >>),
    create_error_result("fallback", CRITICAL, "d", NoException) }

\* what func() does
WrappedFunctions ==
  { Returned(r) : r \in HandedResults } \cup { Raised("ValueError"), Raised("KeyError") }

SafeCalls ==
  [func : WrappedFunctions, error_context : { "first", "second" },
   default_result : { NoneVal } \cup { Some(r) : r \in HandedResults }]

HoldsSafeCall == held.kind = "safe_call"

SafeValidationCall ==
  /\ HoldsSafeCall
  /\ lastCall' = Some(Call("safe_validation_call", NoneVal,
                           safe_validation_call(held.content.func, held.content.error_context,
                                                held.content.default_result)))
  /\ UNCHANGED << held, metrics, notValidate >>

SafeCallNext == SafeValidationCall

InitSafeCall ==
  /\ RegistryInit /\ ResultsInit /\ EngineInit /\ JobInit /\ ContextInit /\ LoggingInit
  /\ metrics = ValidationMetrics
  /\ held \in { Source("safe_call", c) : c \in SafeCalls }
  /\ lastCall = NoneVal

SpecSafeCall == InitSafeCall /\ [][SafeCallNext]_vars

\* a GDXJobValidator made in any mode, its mode set between validations
InitModes ==
  /\ RegistryInit /\ ResultsInit /\ EngineInit /\ ContextInit /\ LoggingInit
  /\ \E mode \in ModeArguments : JobInitWith(mode)
  /\ metrics = ValidationMetrics
  /\ held \in {Parsed(d) : d \in JobDocuments}
  /\ lastCall = NoneVal

SpecModes == InitModes /\ [][ModesNext]_vars

\* contexts made from one root context, and the alias rule called on one mapping
InitContexts ==
  /\ RegistryInit /\ ResultsInit /\ EngineInit /\ JobInit /\ ContextInit /\ LoggingInit
  /\ metrics = ValidationMetrics
  /\ held \in {Source("mapping", mapping) : mapping \in SqlMappings}
  /\ lastCall = NoneVal

SpecContexts == InitContexts /\ [][ContextNext]_vars

\* the logging configuration interface and with blocks of LoggingContext objects
SpecLogging == Init /\ [][LoggingNext]_vars

\* ------------------------------------------------------------------------
\* Properties
\* ------------------------------------------------------------------------
NoBlocking(s) == \A i \in 1..Len(s) : ~IsBlocking(s[i])

\* the result the last action of the builder specification produced
Produced == Deref(heap, results[lastOp.r])

\* C1: a result that build, merge or filter_by_severity has just produced is valid
\* exactly when its errors list holds no diagnostic of severity ERROR or CRITICAL.
C1_ValidIffNoBlockingError ==
  lastOp.op \in {"build", "merge", "filter_by_severity"}
    => (Produced.is_valid <=> NoBlocking(Produced.errors))

\* C3: the result of a.merge(b) is valid exactly when a and b both are, and each of
\* its three lists is the list of a followed by the list of b.
C3_MergeIsConjunctionAndConcatenation ==
  lastOp.op = "merge" =>
    LET a == Deref(heap, results[lastOp.a])
        b == Deref(heap, results[lastOp.b])
    IN /\ Produced.is_valid = (a.is_valid /\ b.is_valid)
       /\ Produced.errors = a.errors \o b.errors
       /\ Produced.warnings = a.warnings \o b.warnings
       /\ Produced.info = a.info \o b.info

\* a merge of two results that differ in validity and both carry diagnostics
C3_MergedMixedOperands ==
  /\ lastOp.op = "merge"
  /\ results[lastOp.a].is_valid # results[lastOp.b].is_valid
  /\ Deref(heap, results[lastOp.a]).errors # << >>
  /\ Deref(heap, results[lastOp.b]).warnings # << >>
  /\ Deref(heap, results[lastOp.a]) # Deref(heap, results[lastOp.b])

\* C4: no add_error, add_warning or add_info on a builder changes the lists of a
\* result that the builder has built before.
C4_BuiltResultFrozen ==
  [][\A k \in 1..Len(results) : Deref(heap', results[k]) = Deref(heap, results[k])]_vars

\* C5: validate_operation reports invalid_operation_type exactly for the names that
\* get_all_operation_names() does not hold, and for those it reports nothing else.
C5_InvalidTypeIffUnregistered ==
  ~IsNone(lastValidation) =>
    LET v == Get(lastValidation)
        unknown == \E i \in 1..Len(v.errors) : v.errors[i].type = "invalid_operation_type"
    IN /\ unknown <=> ~v.registered
       /\ ~v.registered => Len(v.errors) = 1

\* C6: after a registration under a name that was registered before, get_operation
\* returns the new specification and validate_operation validates against it.
C6_ReplacementVisible ==
  (~IsNone(lastReg) /\ Get(lastReg).replaced) =>
    LET spec == Get(lastReg).spec
    IN /\ get_operation(operations, opCache, spec.name) = Some(spec)
       /\ \A parameters \in ParamMaps :
            validate_operation(operations, opCache, spec.name, parameters, "p")
              = validate_parameters(spec, parameters, "p") \o
                (IF spec.name = "clamp" THEN ClampChecks(parameters) ELSE << >>)

\* C7: after register_operation(spec), get_operation(spec.name) is not None and
\* get_operations_by_category(spec.category) holds spec.name.
C7_RegisteredIsRetrievable ==
  ~IsNone(lastReg) =>
    LET spec == Get(lastReg).spec
    IN /\ ~IsNone(get_operation(operations, opCache, spec.name))
       /\ spec.name \in SeqToSet(get_operations_by_category(categories, catCache, spec.category))

\* the rule at place i was selected by the last apply_rules call
SelectedAt(i) == Selected(rules[i], Get(lastApply).rule_categories)

\* C8: when a selected rule raises, the result of apply_rules holds exactly one
\* rule_execution_error naming that rule, with the text of the exception, and the
\* diagnostics every other selected rule returned are in the result.
C8_RaisingRuleIsolated ==
  ~IsNone(lastApply) =>
    LET result == Get(lastApply).result
        all == get_all_messages(result)
    IN \A i \in 1..Len(rules) :
         SelectedAt(i) =>
           /\ rules[i].func.kind = "raise" =>
                /\ Len(SelectSeq(all, LAMBDA d : d.type = "rule_execution_error"
                                                 /\ d.detail = rules[i].name)) = 1
                /\ \E k \in 1..Len(result.errors) :
                     result.errors[k] = ExcDiag("rule_execution_error", ERROR, rules[i].name,
                                                rules[i].func.exception)
           /\ (rules[i].func.kind # "raise" /\ NotADict \notin SeqToSet(rules[i].func.items)) =>
                SeqToSet(rules[i].func.items) \subseteq SeqToSet(all)

\* a raising rule was applied before a rule that returns diagnostics
C8_RaisingRuleBeforeReturningRule ==
  /\ ~IsNone(lastApply)
  /\ Len(rules) = 2
  /\ SelectedAt(1) /\ rules[1].func.kind = "raise"
  /\ SelectedAt(2) /\ rules[2].func.kind = "list" /\ NotADict \notin SeqToSet(rules[2].func.items)
  /\ Len(Get(lastApply).result.info) = 1

\* C2: a result that apply_rules returns as valid holds no diagnostic of severity
\* ERROR or CRITICAL in any of its three lists.
C2_ValidHasNoBlockingAnywhere ==
  ~IsNone(lastApply) =>
    (Get(lastApply).result.is_valid => NoBlocking(get_all_messages(Get(lastApply).result)))

\* the mappings section of a document is no list, or an element of it is no map
WrongShape(yaml_content) ==
  /\ "mappings" \in DOMAIN yaml_content.d
  /\ \/ yaml_content.d.mappings.t # "list"
     \/ \E i \in 1..Len(yaml_content.d.mappings.items) :
          yaml_content.d.mappings.items[i].t # "dict"

\* C9: validate, validate_column_transformations and validate_comprehensive return a
\* result and raise nothing, whatever the shape of the sections of the document; when
\* the mappings section has a wrong shape the result carries an error.
C9_EntryPointsReturnResult ==
  (~IsNone(lastCall) /\ IsNone(Get(lastCall).parse)) =>
    /\ Get(lastCall).outcome.kind = "return"
    /\ WrongShape(held.content) => Get(lastCall).outcome.result.errors # << >>

\* C10: when the parse of the file or string raises, validate_yaml_file,
\* validate_yaml_string, validate_file and validate_string return a result whose
\* errors are one CRITICAL validation_exception with the text of that exception.
C10_ParseFailureIsOneCriticalException ==
  (~IsNone(lastCall) /\ ~IsNone(Get(lastCall).parse)
     /\ Get(Get(lastCall).parse).kind = "raise") =>
    LET outcome == Get(lastCall).outcome
    IN /\ outcome.kind = "return"
       /\ Len(outcome.result.errors) = 1
       /\ outcome.result.errors[1].type = "validation_exception"
       /\ outcome.result.errors[1].severity = CRITICAL
       /\ outcome.result.errors[1].exception = Get(Get(lastCall).parse).exception


\* the value of a parameter is a number that is no bool
IsLiteralNumber(v) == v.t \in {"int", "float"}

HasType(errors, type) == \E i \in 1..Len(errors) : errors[i].type = type

\* C16: validate_operation("divide", {"factor": v}, path) reports division_by_zero
\* when v is a literal numeric zero, and reports none when v is a string or a number
\* other than zero.
C16_DivisionByZeroOnlyForLiteralZero ==
  (~IsNone(lastValidation) /\ Get(lastValidation).name = "divide"
     /\ DOMAIN Get(lastValidation).parameters = {"factor"}) =>
    LET v == Get(lastValidation).parameters.factor
        reported == HasType(Get(lastValidation).errors, "division_by_zero")
    IN /\ (IsLiteralNumber(v) /\ v.n = 0) => reported
       /\ (IsStr(v) \/ (IsLiteralNumber(v) /\ v.n # 0)) => ~reported

\* divide was validated with the float zero as factor and reported the division
C16_DivideByFloatZero ==
  /\ ~IsNone(lastValidation)
  /\ Get(lastValidation).name = "divide"
  /\ Get(lastValidation).parameters = [factor |-> FloatV(0)]
  /\ Get(lastValidation).errors = << Diag("division_by_zero", NoSeverity, "factor") >>

\* a bound of clamp is present when the map gives it a value other than None
BoundPresent(parameters, name) == ParamGet(parameters, name) # NoneV

\* C17: validate_operation("clamp", params, path) reports missing_clamp_bounds exactly
\* when neither min_value nor max_value is present, and invalid_clamp_range exactly
\* when both are numbers and min_value > max_value.
C17_ClampBounds ==
  (~IsNone(lastValidation) /\ Get(lastValidation).name = "clamp") =>
    LET parameters == Get(lastValidation).parameters
        errors == Get(lastValidation).errors
        min_val == ParamGet(parameters, "min_value")
        max_val == ParamGet(parameters, "max_value")
    IN /\ HasType(errors, "missing_clamp_bounds")
            <=> (~BoundPresent(parameters, "min_value") /\ ~BoundPresent(parameters, "max_value"))
       /\ HasType(errors, "invalid_clamp_range")
            <=> (IsNumber(min_val) /\ IsNumber(max_val) /\ min_val.n > max_val.n)

\* clamp was validated with two equal numeric bounds and reported nothing
C17_ClampEqualBounds ==
  /\ ~IsNone(lastValidation)
  /\ Get(lastValidation).name = "clamp"
  /\ Get(lastValidation).parameters = [min_value |-> IntV(5), max_value |-> FloatV(5)]
  /\ Get(lastValidation).errors = << >>

\* the latest call on the held entry was entry, and what it returned
ColumnCalled(entry) ==
  HoldsColumn /\ ~IsNone(lastCall) /\ Get(lastCall).entry = entry
Answer == Get(lastCall).outcome.result

\* every occurrence of the text w in s lies inside a longer identifier
OnlyInsideIdentifier(s, w) ==
  \A i \in Occurrences(lower(s), w) :
    ~WordStartsAt(s, i) \/ (i + Len(w) <= Len(s) /\ s[i + Len(w)] \in WordChars)

SuspiciousTexts == {suspicious_functions[i].text : i \in 1..Len(suspicious_functions)}

\* C14: the security pass on a source_columns_interested entry reports no
\* suspicious_sql_function diagnostic when every suspicious name of the entry
\* occurs only inside a longer identifier, and reports at least one when the
\* entry holds a call of a suspicious function such as exec('x').
C14_SuspiciousFunctionsBoundaryAware ==
  ColumnCalled("_validate_sql_security") =>
    LET text == ColumnText(held)
        reported == HasType(Answer, "suspicious_sql_function")
    IN /\ (\A w \in SuspiciousTexts : OnlyInsideIdentifier(text, w)) => ~reported
       /\ SearchCall(text, SuspiciousTexts) => reported

AliasExtractions == {"_extract_alias_from_expression", "_validate_column_consistency_rule"}

\* C15: for an entry "<expr> as <alias>" whose alias matches
\* ^[a-zA-Z_][a-zA-Z0-9_]*$ alias extraction returns exactly <alias>, character
\* for character, also when <expr> is CASE ... END and holds " as " itself.
C15_AliasRoundTrip ==
  (HoldsColumn /\ ~IsNone(lastCall) /\ Get(lastCall).entry \in AliasExtractions
     /\ ~IsNone(held.alias) /\ MatchesIdentifier(Get(held.alias))) =>
    Answer = held.alias

\* the caller holds a document with one mapping that has column sections, and
\* the latest call on it was entry
MappingValidated(entry) ==
  /\ held.kind = "parsed" /\ held.content \in MappingDocuments
  /\ ~IsNone(lastCall) /\ Get(lastCall).entry = entry
HeldMapping == held.content.d.mappings.items[1]
HasTransformations == "column_transformations" \in DOMAIN HeldMapping.d
HeldTransformations == HeldMapping.d.column_transformations.items

\* the aliases and columns the source_columns_interested section of the held
\* mapping gives: none when the section is absent or no list
DeclaredColumns ==
  IF "source_columns_interested" \in DOMAIN HeldMapping.d
       /\ HeldMapping.d.source_columns_interested.t = "list"
  THEN source_columns_set(HeldMapping) ELSE {}

\* C11: when column_transformations[0].source_alias of a mapping is not in the
\* set of aliases and columns derived from source_columns_interested, whatever
\* that section holds, validating the mapping gives a result that is not valid
\* and has an orphaned_transformation_columns diagnostic of severity ERROR.
C11_OrphanedAliasIsReported ==
  (MappingValidated("validate_comprehensive") /\ HasTransformations
     /\ HeldTransformations[1].d.source_alias.s \notin DeclaredColumns) =>
    /\ Get(lastCall).outcome.kind = "return"
    /\ ~Answer.is_valid
    /\ \E i \in 1..Len(Answer.errors) :
         /\ Answer.errors[i].type = "orphaned_transformation_columns"
         /\ Answer.errors[i].severity = ERROR

\* every entry of the held source_columns_interested section is a str written
\* "<expr> as <alias>", and every source_alias is one of these aliases
AliasesDeclared ==
  /\ "source_columns_interested" \in DOMAIN HeldMapping.d
  /\ HeldMapping.d.source_columns_interested.t = "list"
  /\ HasTransformations
  /\ LET cols == HeldMapping.d.source_columns_interested.items
         declared == {entry \in SourceEntries :
                        /\ ~IsNone(entry.alias)
                        /\ \E i \in 1..Len(cols) : cols[i] = PyStr(ColumnText(entry))}
     IN /\ \A i \in 1..Len(cols) :
             \E entry \in declared : cols[i] = PyStr(ColumnText(entry))
        /\ \A i \in 1..Len(HeldTransformations) :
             \E entry \in declared :
               HeldTransformations[i].d.source_alias.s = Get(entry.alias)

\* every transformation of the held mapping has the four required fields and
\* is a direct_mapping
TransformationsComplete ==
  \A i \in 1..Len(HeldTransformations) :
    /\ {"source_alias", "target_column", "data_type", "transformation_type"}
         \subseteq DOMAIN HeldTransformations[i].d
    /\ HeldTransformations[i].d.transformation_type.s = << "d", "i", "r", "e", "c", "t", "_", "m", "a", "p", "p", "i", "n", "g" >>

\* C12: a document with one mapping whose transformations are complete
\* direct_mapping transformations and whose source_alias values are aliases
\* declared by "<expr> as <alias>" entries of source_columns_interested
\* validates with is_valid true and no errors.
C12_DeclaredAliasValidates ==
  (MappingValidated("validate_comprehensive") /\ AliasesDeclared /\ TransformationsComplete) =>
    /\ Get(lastCall).outcome.kind = "return"
    /\ Answer.is_valid
    /\ Answer.errors = << >>

\* the one transformation of the held mapping lacks data_type and nothing else
OnlyDataTypeMissing ==
  /\ HasTransformations /\ Len(HeldTransformations) = 1
  /\ DOMAIN HeldTransformations[1].d
       = {"source_alias", "target_column", "transformation_type"}

MissingFields(errors) ==
  SelectSeq(errors, LAMBDA e : e.type = "missing_required_field")

\* C13: for a document whose one transformation lacks data_type the result has
\* exactly one missing_required_field diagnostic, of severity ERROR and with
\* field data_type.
C13_MissingDataTypeReportedOnce ==
  ((MappingValidated("validate_comprehensive")
      \/ MappingValidated("validate_column_transformations")) /\ OnlyDataTypeMissing) =>
    /\ Get(lastCall).outcome.kind = "return"
    /\ MissingFields(Answer.errors) = << Diag("missing_required_field", ERROR, "data_type") >>


\* the last n entries of a sequence, all of them when it has fewer
LastEntries(seq, n) ==
  IF Len(seq) <= n THEN seq ELSE SubSeq(seq, Len(seq) - n + 1, Len(seq))

\* C18: whatever calls were made on a job validator, validation_history holds
\* at most 50 entries, and they are the most recent results stored, in the
\* order of the calls: storing a 51st result evicts the oldest entry.
C18_HistoryKeepsLastFifty ==
  /\ Len(validation_history) <= 50
  /\ validation_history = LastEntries(stored, 50)

\* 51 results were stored, the oldest by validate_job_configuration and the
\* others by validate: the history holds the 50 of validate
C18_FiftyFirstStored ==
  /\ Len(stored) = 51
  /\ stored[1].type = "job_config"
  /\ Len(validation_history) = 50
  /\ \A i \in 1..50 : validation_history[i].type = "validation"


\* the entry points named validate and validate_comprehensive
ValidationEntries == {"validate", "validate_comprehensive", "GDXYamlParser.validate_comprehensive"}

\* C19: a call of validate or validate_comprehensive writes no state that
\* outlives the call: the metrics of the validator, the history, and the
\* operation registry with its caches are after the call what they were before.
C19_ValidationWritesNothing ==
  [][(~IsNone(lastCall') /\ Get(lastCall').entry \in ValidationEntries)
       => UNCHANGED << metrics, validation_history, registryVars >>]_vars


\* create_child_context leaves every context that existed unchanged and
\* returns a context that did not exist
ChildContextIsNew ==
  [][(~IsNone(lastCall') /\ Get(lastCall').entry = "create_child_context")
       => /\ SubSeq(contexts', 1, Len(contexts)) = contexts
          /\ Len(contexts') = Len(contexts) + 1]_vars

\* C20: no operation changes a ValidationContext that exists:
\* create_child_context returns a new context and leaves its parent as it
\* was, and a context handed to a rule is after the call what it was before.
C20_ContextsNeverMutated ==
  [][\A c \in 1..Len(contexts) : contexts'[c] = contexts[c]]_vars


\* the rule at place i has left its trace in the result of the last
\* apply_rules: the rule_execution_error a rule that raises is reported with
Executed(i) ==
  \E k \in 1..Len(Get(lastApply).result.errors) :
    /\ Get(lastApply).result.errors[k].type = "rule_execution_error"
    /\ Get(lastApply).result.errors[k].detail = rules[i].name

\* rule_categories was not given, or it holds one of the categories of the rule
WantedBy(rule, rule_categories) ==
  \/ IsNone(rule_categories)
  \/ SeqToSet(Get(rule_categories)) \cap SeqToSet(rule.categories) # {}

\* C21: apply_rules executes a registered rule exactly when rule_categories is
\* not given or holds one of the categories of the rule; when rule_categories
\* is given, the empty list included, and holds none of them, the rule is
\* skipped (seen on the rules that raise, whose execution leaves an error
\* naming them).
C21_RuleRunsIffCategoryMatches ==
  ~IsNone(lastApply) =>
    \A i \in 1..Len(rules) :
      rules[i].func.kind = "raise" =>
        (Executed(i) <=> WantedBy(rules[i], Get(lastApply).rule_categories))


\* the rules that check the settings sub-tree, and the rules that check a mapping
SettingsRuleNames == {"validate_default_partition_settings", "validate_job_settings"}
MappingRuleNames == {ComprehensiveRules[i].name : i \in 1..Len(ComprehensiveRules)} \ SettingsRuleNames

\* the rules that raised in the run that produced errors
RaisedRules(errors) ==
  {errors[k].detail : k \in {j \in 1..Len(errors) : errors[j].type = "rule_execution_error"}}

\* the caller holds a document and the latest call on it was validate_comprehensive
\* of a ComprehensiveYamlValidator, which returned
ComprehensiveReturned ==
  /\ HoldsDocument
  /\ ~IsNone(lastCall) /\ Get(lastCall).entry = "validate_comprehensive"
  /\ Get(lastCall).outcome.kind = "return"

\* C22: in comprehensive validation the settings rules are applied to the
\* settings sub-tree only and the per-mapping rules to the mappings only: a
\* document without mappings has no trace of a per-mapping rule in its result,
\* a document without settings none of a settings rule, and a diagnostic of the
\* job-settings check is never reported on a path other than settings.
C22_RulesStayInTheirRegion ==
  ComprehensiveReturned =>
    LET errors == Get(lastCall).outcome.result.errors
    IN /\ "mappings" \notin DOMAIN held.content.d => RaisedRules(errors) \cap MappingRuleNames = {}
       /\ "settings" \notin DOMAIN held.content.d => RaisedRules(errors) \cap SettingsRuleNames = {}
       /\ \A k \in 1..Len(errors) :
            errors[k].type = "invalid_load_mode" => errors[k].detail = "settings"


\* the caller holds a document whose mapping has columns_mapping or
\* column_duplications, and validate_comprehensive has returned its result
ConsistencyValidated ==
  /\ held.kind = "parsed" /\ held.content \in ConsistencyDocuments
  /\ ~IsNone(lastCall) /\ Get(lastCall).entry = "validate_comprehensive"
  /\ Get(lastCall).outcome.kind = "return"

OrphanedReferenceTypes == {"orphaned_mapped_columns", "orphaned_duplicated_columns"}

OfTypes(diagnostics, types) == SelectSeq(diagnostics, LAMBDA e : e.type \in types)

\* C23: an orphaned source_alias is reported with severity ERROR; an orphaned
\* columns_mapping or column_duplications reference is reported in the errors
\* bucket (never among the warnings or the info) with severity WARNING.
C23_OrphanSeverities ==
  ConsistencyValidated =>
    LET result == Get(lastCall).outcome.result
        mapping == held.content.d.mappings.items[1]
        orphans == OfTypes(result.errors, OrphanedReferenceTypes)
    IN /\ \A e \in SeqToSet(OfTypes(result.errors \o result.warnings \o result.info,
                                    {"orphaned_transformation_columns"})) :
            e.severity = ERROR
       /\ OfTypes(result.warnings \o result.info, OrphanedReferenceTypes) = << >>
       /\ (mapped_columns_set(mapping) \cup duplicated_source_columns_set(mapping))
             \ source_columns_set(mapping) # {} => orphans # << >>
       /\ \A e \in SeqToSet(orphans) : e.severity = WARNING


\* the diagnostics of a list that ParameterSpec.validate gives for the parameter
OfParameter(errors, name) ==
  SelectSeq(errors, LAMBDA e : e.detail = name
                                 /\ e.type \notin {"unknown_parameter", "missing_clamp_bounds",
                                                   "invalid_clamp_range"})

\* the places of a list that hold the unknown_parameter diagnostic of a key
UnknownAt(errors, key) ==
  {i \in 1..Len(errors) : errors[i].type = "unknown_parameter" /\ errors[i].detail = key}

\* C24: the list validate_parameters returns for a spec and a parameter map holds
\* exactly one unknown_parameter diagnostic for every key the spec does not
\* declare, none for a declared key, and for every declared parameter all the
\* diagnostics of that parameter, whatever the other parameters gave.
C24_ParametersValidatedIndependently ==
  [][(lastValidation' # lastValidation /\ Get(lastValidation').registered) =>
       LET v == Get(lastValidation')
           spec == Get(get_operation(operations, opCache, v.name))
           declared == {spec.parameters[i].name : i \in 1..Len(spec.parameters)}
       IN /\ \A key \in DOMAIN v.parameters \ declared :
               Cardinality(UnknownAt(v.errors, key)) = 1
          /\ \A key \in declared : UnknownAt(v.errors, key) = {}
          /\ \A i \in 1..Len(spec.parameters) :
               OfParameter(v.errors, spec.parameters[i].name)
                 = ParameterValidate(spec.parameters[i],
                                     ParamGet(v.parameters, spec.parameters[i].name), "p")
          /\ Len(v.errors) >= Cardinality(DOMAIN v.parameters \ declared)
     ]_vars

\* replace was validated with an undeclared key, a replacement of the wrong type
\* and no search, and all three are reported
C24_UnknownAndTwoFailures ==
  /\ ~IsNone(lastValidation)
  /\ Get(lastValidation).name = "replace"
  /\ DOMAIN Get(lastValidation).parameters = {"replacement", "regex"}
  /\ Len(Get(lastValidation).errors) = 3
  /\ HasType(Get(lastValidation).errors, "unknown_parameter")
  /\ HasType(Get(lastValidation).errors, "invalid_parameter_type")
  /\ HasType(Get(lastValidation).errors, "missing_required_parameter")


\* the quality and performance heuristics and the diagnostics they give
HeuristicRuleNames == {"check_complex_chains", "validate_numeric_operations"}
HeuristicTypes ==
  {"complex_transformation_chain", "redundant_rounding", "complex_arithmetic_chain",
   "canceling_operations"}

\* a rule table without the heuristics
WithoutHeuristics(table) == SelectSeq(table, LAMBDA rule : rule.name \notin HeuristicRuleNames)

\* the diagnostic comes from a heuristic: it is one of theirs, or it reports
\* that one of them raised
FromHeuristic(e) ==
  \/ e.type \in HeuristicTypes
  \/ e.type = "rule_execution_error" /\ e.detail \in HeuristicRuleNames

\* C25: the heuristic rules (complex chains, redundant rounding, excess
\* arithmetic, canceling operations) put nothing among the errors, and the
\* is_valid of validate_column_transformations is what it is for a validator
\* that has not registered them.
C25_HeuristicsNeverInvalidate ==
  (HoldsDocument /\ ~IsNone(lastCall)
     /\ Get(lastCall).entry = "validate_column_transformations"
     /\ Get(lastCall).outcome.kind = "return") =>
    \A class \in ValidatorClasses :
      Get(lastCall).outcome = validate_column_transformations(RulesOf(class), held.content) =>
        LET result == Get(lastCall).outcome.result
            without == validate_column_transformations(WithoutHeuristics(RulesOf(class)),
                                                       held.content)
        IN /\ \A k \in 1..Len(result.errors) : ~FromHeuristic(result.errors[k])
           /\ without.kind = "return"
           /\ result.is_valid = without.result.is_valid


\* the places of a list that hold the first diagnostic of their error_id
FirstOccurrences(errors) ==
  {i \in 1..Len(errors) : \A j \in 1..(i - 1) : error_id(errors[j]) # error_id(errors[i])}

\* C26: _deduplicate_errors returns the diagnostics that are the first of their
\* (type, message, path) in the list, in the order of the list, and gives the
\* same list when applied to its own result; merge removes no duplicate.
C26_DeduplicationKeepsFirstOccurrences ==
  (HoldsDiagnostics /\ ~IsNone(lastCall)) =>
    LET result == Get(lastCall).outcome.result
    IN /\ Get(lastCall).entry = "_deduplicate_errors" =>
            /\ result = SelectSeq2(held.content, FirstOccurrences(held.content))
            /\ deduplicate_errors(result) = result
       /\ Get(lastCall).entry = "merge" => result.errors = held.content \o held.content

\* a list whose first and last diagnostics have the same (type, message, path)
\* but not the same severity, with another one between them, was deduplicated
C26_DuplicateAfterAnother ==
  /\ HoldsDiagnostics /\ ~IsNone(lastCall)
  /\ Get(lastCall).entry = "_deduplicate_errors"
  /\ Len(held.content) = 3
  /\ error_id(held.content[1]) = error_id(held.content[3])
  /\ held.content[1] # held.content[3]
  /\ error_id(held.content[2]) # error_id(held.content[1])
  /\ Get(lastCall).outcome.result = << held.content[1], held.content[2] >>


\* C27: when the __exit__ of a LoggingContext has returned, the library-wide
\* logging configuration is the one that was in force when its with block was
\* entered.
C27_ExitRestoresEnteredConfiguration ==
  (~IsNone(lastLogging) /\ Get(lastLogging).entry = "__exit__") =>
    default_config = Get(Get(lastLogging).entered)


\* the class of validator each supported mode stands for
ValidatorOfMode ==
  [comprehensive |-> "ComprehensiveYamlValidator", standard |-> "GDXYamlParser"]

\* C28: once set_validation_mode has been called, validation_mode is
\* "comprehensive" or "standard" and the validator the validation methods call
\* is of the class of that mode, whatever was called after.
C28_ValidatorMatchesMode ==
  (~IsNone(lastCall) /\ Get(lastCall).entry = "set_validation_mode") =>
    /\ validation_mode \in DOMAIN ValidatorOfMode
    /\ comprehensive_validator = ValidatorOfMode[validation_mode]


\* safe_validation_call was called with a function that raised
SafeCallRaised ==
  /\ HoldsSafeCall /\ ~IsNone(lastCall)
  /\ Get(lastCall).entry = "safe_validation_call"
  /\ held.content.func.kind = "raise"

\* C29: when the function raised, safe_validation_call returns the
\* default_result it was given, valid or not, and the exception result only
\* when it was given none.
C29_DefaultResultReturnedWhenSupplied ==
  SafeCallRaised =>
    LET result == Get(lastCall).outcome.result
        default_result == held.content.default_result
    IN IF IsNone(default_result)
       THEN result = create_exception_result(held.content.func.exception,
                                             held.content.error_context)
       ELSE result = Get(default_result)


\* the places of a category list that hold a name
PlacesOf(list, name) == {i \in 1..Len(list) : list[i] = name}

\* C30: every registered operation name is in the category index exactly
\* once, in the list of the category of the spec registered under the name,
\* and in no other list.
C30_CategoryIndexMatchesRegistry ==
  \A name \in DOMAIN operations :
    /\ operations[name].category \in DOMAIN categories
    /\ \A c \in DOMAIN categories :
         Cardinality(PlacesOf(categories[c], name)) =
           IF c = operations[name].category THEN 1 ELSE 0

====
